---- MODULE Spec2Model ----
\* The VFS routing and composition layer of wanix: the recursive resolver
\* (fs/resolve.go), MapFS and UnionFS (fs/fskit/mapfs.go) and the namespace
\* with Plan 9 bind semantics (vfs/vfs.go).
\*
\* A path is a sequence of components; "." is <<".">> and the empty string is
\* << >>.  A file service is a record [k |-> kind, id |-> number]: equality of
\* these records is the identity of the service.
EXTENDS Integers, Sequences, FiniteSets, TLC

VARIABLES
  maps,      \* MapFS id -> (key path -> file service)
  unions,    \* UnionFS id -> sequence of member services
  bindings,  \* namespace id -> (destination path -> sequence of bindTarget)
  live,      \* the namespaces that have been constructed
  created,   \* the files the leaf services were made to create: <<leaf id, name>>
  nextID,    \* task Service.nextID
  resources, \* task Service.resources: registry key -> the task registered under it
  run,       \* the calls in progress: those that share namespace 1, the goroutines of the tasks
  out        \* what the last operation was given and what it returned

vars == <<maps, unions, bindings, live, created, nextID, resources, run, out>>

\* ---------------------------------------------------------------- bounds

\* the most bindings the namespaces are driven to hold, all together
MaxTotal == 2
\* the most Bind calls that set a namespace up before it is only queried
MaxScript == 2
\* the call depth at which a nested open/stat is reported as a stack overflow
MaxStack == 6
\* fs.Resolve's loop limit
MaxDepth == 100
\* the most tasks the task service is driven to allocate
MaxTasks == 2

\* ----------------------------------------------------------------- paths

Dot == <<".">>
Empty == << >>

\* components in strings.Compare order
CompOrder ==
  <<"", ".", "..", "1", "2", "3", "4", "a", "b", "bootstrap.js", "c", "cmd", "ctl", "data", "dom",
    "new", "node", "nodejs", "ns", "self", "task", "ttyS0", "vm", "web", "x", "y", "zz">>

Rank(c) == CHOOSE i \in 1..Len(CompOrder) : CompOrder[i] = c

RECURSIVE PathLess(_, _)
\* strings.Compare(a, b) < 0 on the joined paths
PathLess(a, b) ==
  IF a = Empty THEN b # Empty
  ELSE IF b = Empty THEN FALSE
  ELSE IF Head(a) = Head(b) THEN PathLess(Tail(a), Tail(b))
  ELSE Rank(Head(a)) < Rank(Head(b))

\* fs.ValidPath: "." or a path with no empty, "." or ".." element
ValidPath(p) == p = Dot \/ (p # Empty /\ \A i \in DOMAIN p : p[i] \notin {"", ".", ".."})

\* k == name, or name begins with k + "/"
IsPrefixDir(k, name) ==
  /\ Len(k) <= Len(name)
  /\ SubSeq(name, 1, Len(k)) = k

\* strings.HasPrefix(name, k + "/")
HasDirPrefix(name, k) == Len(k) < Len(name) /\ SubSeq(name, 1, Len(k)) = k

\* strings.Trim(strings.TrimPrefix(name, k), "/")
TrimPrefix(name, k) ==
  IF IsPrefixDir(k, name) THEN SubSeq(name, Len(k) + 1, Len(name)) ELSE name

\* path.Clean of joined elements none of which is ".": nothing left is "."
Cleaned(p) == IF p = Empty THEN Dot ELSE p

\* path.Join(a, b): empty elements are ignored, the result is cleaned
Join(a, b) ==
  IF a \in {Empty, Dot} /\ b \in {Empty, Dot} THEN (IF a = Empty /\ b = Empty THEN Empty ELSE Dot)
  ELSE IF a \in {Empty, Dot} /\ ValidPath(b) THEN b
  ELSE IF b \in {Empty, Dot} /\ ValidPath(a) THEN a
  ELSE Cleaned(SelectSeq(a \o b, LAMBDA c : c # "."))

RECURSIVE LongestFirst(_)
LongestFirst(S) ==
  IF S = {} THEN << >>
  ELSE LET k == CHOOSE x \in S : \A y \in S : Len(y) < Len(x) \/ (Len(y) = Len(x) /\ (y = x \/ PathLess(x, y)))
       IN  <<k>> \o LongestFirst(S \ {k})

\* fskit.MatchPaths: the keys that are prefix-directories of name, longest first
MatchPaths(keys, name) == LongestFirst({k \in keys : IsPrefixDir(k, name)})

\* ------------------------------------------------------------- services

Leaf(i) == [k |-> "leaf", id |-> i]
Map(i) == [k |-> "map", id |-> i]
Union(i) == [k |-> "union", id |-> i]
NS(i) == [k |-> "ns", id |-> i]
Wrap(i) == [k |-> "wrap", id |-> i]
Chain(i) == [k |-> "chain", id |-> i]
NoFS == [k |-> "nil", id |-> 0]

\* the task service
TaskService == [k |-> "task", id |-> 1]

\* leaf ids from here on are the task resources: ResBase + id is the task with that id
ResBase == 10

\* the file service that is the task with the id given (task.Resource)
Resource(id) == Leaf(ResBase + id)

\* the "new" entry of the task service: the fskit.OpenFunc that allocates on read
NewFunc == Leaf(5)

\* leaf ids from here on are the "self" files: SelfBase + id holds the id of that task
SelfBase == 30

\* internal.FieldFile(t.ID()): a file service that is one file holding the id
FieldFile(id) == Leaf(SelfBase + id)

\* the id a "self" file holds
FieldData(s) == s.id - SelfBase

\* the kinds Service.types holds a starter for (Register in New and registerPlatformTasks)
types == {"ns", "nodejs"}

\* fs.Equal: two references are equal iff they are the same service
Equal(a, b) == a = b

\* the type assertion fsys.(fs.ResolveFS)
IsResolver(s) == s.k \in {"map", "union", "ns", "wrap", "chain", "task"}

\* the type assertion fsys.(fs.CreateFS)
IsCreator(s) ==
  \/ s.k \in {"map", "union", "ns", "task"}
  \/ s \in {Leaf(2), Leaf(4), NewFunc}
  \/ (s.k = "leaf" /\ s.id > ResBase /\ s.id < SelfBase)

\* the per-operation context: the read-only flag, the task it carries, and whether it
\* has been cancelled
Ctx(ro, task) == [ro |-> ro, task |-> task, done |-> FALSE]

\* the context once its cancel function has been called: ctx.Err() is context.Canceled
Cancelled(ctx) == [ctx EXCEPT !.done = TRUE]

IsReadOnly(ctx) == ctx.ro

\* fs.ContextFor(ns): the namespace's own context
ContextFor(n) == Ctx(FALSE, n)

\* the files and directories the leaf services hold when they are set up: leaf 1
\* holds 1/data, leaves 2 and 3 hold x, and only leaf 2 of them creates; leaf 4
\* refuses every call with a permission error; leaf 6 is the web/node service, which
\* holds bootstrap.js and ctl
LeafFiles(i) ==
  IF i = 1 THEN {<<"1", "data">>}
  ELSE IF i = 6 THEN {<<"bootstrap.js">>, <<"ctl">>}
  ELSE IF i >= SelfBase THEN {Dot}
  ELSE IF i > ResBase THEN {<<"cmd">>, <<"ctl">>}
  ELSE IF i = 5 THEN {<<kind>> : kind \in types}
  ELSE {<<"x">>}

LeafDirs(i) == IF i = 1 THEN {Dot, <<"1">>} ELSE IF i >= SelfBase THEN {} ELSE {Dot}

EmptyMap == [x \in {} |-> NoFS]

Put(f, key, v) == [x \in (DOMAIN f) \cup {key} |-> IF x = key THEN v ELSE f[x]]

Del(f, key) == [x \in (DOMAIN f) \ {key} |-> f[x]]

Get(f, key) == IF key \in DOMAIN f THEN f[key] ELSE << >>

\* the MapFS id of fskit.MapFS(d.resources)
ResMap == 10

\* MapFS ids from here on are the map m that Service.ResolveFS builds: MBase + t under
\* a context that carries task t, MBase under a context that carries none
MBase == 20

\* the MapFS values Service.ResolveFS builds from the registry res: m holds "new" and,
\* under a context that carries a task, "self"
ServiceMaps(res) ==
  [i \in {ResMap} \cup {MBase + t : t \in 0..MaxTasks} |->
     IF i = ResMap THEN [k \in {<<key>> : key \in DOMAIN res} |-> Resource(res[k[1]].id)]
     ELSE IF i = MBase THEN (<<"new">> :> NewFunc)
     ELSE (<<"new">> :> NewFunc) @@ (<<"self">> :> FieldFile(i - MBase))]

\* fskit.UnionFS{m, fskit.MapFS(d.resources)}, one for each m
ServiceUnions == [i \in {MBase + t : t \in 0..MaxTasks} |-> <<Map(i), Map(ResMap)>>]

\* the state the file services read, and the order Go ranges over maps in
World(ord) ==
  [maps |-> ServiceMaps(resources) @@ maps, unions |-> ServiceUnions @@ unions,
   bindings |-> bindings, created |-> created, resources |-> resources, ord |-> ord]

\* the orders in which the runtime may range over a Go map during one operation
Orders == {"long", "short"}

\* ---------------------------------------------------------------- results

ROk(fs, name) == [err |-> "ok", fs |-> fs, name |-> name]

RErr(e) == [err |-> e, fs |-> NoFS, name |-> Empty]

\* what fs.Resolve returns, with the number of ResolveFS calls its loop made
RSteps(r, n) == [err |-> r.err, fs |-> r.fs, name |-> r.name, steps |-> n]

OFile(fs, name) == [err |-> "ok", dir |-> FALSE, fs |-> fs, name |-> name, entries |-> << >>]

ODir(fs, name, entries) == [err |-> "ok", dir |-> TRUE, fs |-> fs, name |-> name, entries |-> entries]

OErr(e) == [err |-> e, dir |-> FALSE, fs |-> NoFS, name |-> Empty, entries |-> << >>]

SOk(isDir) == [err |-> "ok", dir |-> isDir]

SErr(e) == [err |-> e, dir |-> FALSE]

\* a nested call ran out of stack: the process dies, nothing swallows this
Crashed(r) == r.err = "overflow"

RECURSIVE SortPaths(_)
\* a set of names as the sequence sorted by strings.Compare
SortPaths(S) ==
  IF S = {} THEN << >>
  ELSE LET m == CHOOSE x \in S : \A y \in S : y = x \/ PathLess(x, y)
       IN  <<m>> \o SortPaths(S \ {m})

RECURSIVE Insert(_, _)
Insert(s, e) ==
  IF s = << >> THEN <<e>>
  ELSE IF PathLess(e, Head(s)) THEN <<e>> \o s
  ELSE <<Head(s)>> \o Insert(Tail(s), e)

RECURSIVE SortByName(_)
\* slices.SortFunc by name on a listing that may hold a name twice
SortByName(s) == IF s = << >> THEN << >> ELSE Insert(SortByName(Tail(s)), Head(s))

Range(s) == {s[i] : i \in DOMAIN s}

\* a sequence from its last element to its first
Reverse(s) == [i \in 1..Len(s) |-> s[Len(s) + 1 - i]]

\* ------------------------------------------------------------ leaf services

\* the files leaf i holds in the world w: those it was set up with and those
\* it has created
LeafHolds(w, i) == LeafFiles(i) \cup {c[2] : c \in {x \in w.created : x[1] = i}}

\* the names directly under directory dir of leaf i
LeafEntries(w, i, dir) ==
  LET base == IF dir = Dot THEN Empty ELSE dir
      all  == LeafHolds(w, i) \cup (LeafDirs(i) \ {Dot})
  IN  SortPaths({<<p[Len(base) + 1]>> : p \in {q \in all : HasDirPrefix(q, base)}})

\* Open on a leaf service
LeafOpen(w, s, name) ==
  IF s.id = 4 THEN OErr("permission")
  ELSE IF s = NewFunc /\ name # Dot THEN OFile(s, name)
  ELSE IF name \in LeafHolds(w, s.id) THEN OFile(s, name)
  ELSE IF name \in LeafDirs(s.id) THEN ODir(s, name, LeafEntries(w, s.id, name))
  ELSE OErr("notexist")

\* the type assertion fsys.(fs.StatContextFS)
HasStat(s) == s.k \in {"map", "ns", "task"}

HasCap(s, cap) ==
  CASE cap = "stat" -> HasStat(s)
    [] cap = "create" -> IsCreator(s)
    [] cap = "resolve" -> IsResolver(s)
    [] OTHER -> FALSE


\* ------------------------------------------------- the composite services

RECURSIVE Call(_, _, _, _, _, _)
RECURSIVE UnionPass1(_, _, _, _, _, _, _)
RECURSIVE UnionPass2(_, _, _, _, _, _)
RECURSIVE ResolveLoop(_, _, _, _, _)
RECURSIVE NSStatRefs(_, _, _, _, _, _)
RECURSIVE ScanRefs(_, _, _, _, _, _, _, _)
RECURSIVE ScanPaths(_, _, _, _, _, _, _, _)
RECURSIVE UnionList(_, _, _, _, _, _)

\* the method call resolver.ResolveFS(ctx, name) on whatever the service is
ResolveFS(w, s, ctx, name, d) == Call(w, s, ctx, name, d, "resolve")

\* fs.StatContext: the service's own StatContext, else open and stat the file
StatContext(w, s, ctx, name, d) == Call(w, s, ctx, name, d, "stat")

\* fs.OpenContext: the service's OpenContext
OpenContext(w, s, ctx, name, d) == Call(w, s, ctx, name, d, "open")

\* file.Stat() on what an open returned
StatOf(file) == IF file.err # "ok" THEN SErr(file.err) ELSE SOk(file.dir)

\* MapFS.ResolveFS, the return through the entry at key: a resolver entry is
\* asked for the relative path, any other entry is the answer
MapEnter(w, m, ctx, key, relativePath, d) ==
  IF IsResolver(w.maps[m.id][key])
  THEN ResolveFS(w, w.maps[m.id][key], ctx, relativePath, d - 1)
  ELSE ROk(w.maps[m.id][key], relativePath)

\* MapMatch with the relative path left as the whole name
MapMatchWhole(w, m, ctx, name, keys, d) ==
  IF keys # << >> THEN MapEnter(w, m, ctx, keys[1], name, d)
  ELSE ROk(m, name)

\* MapFS.ResolveFS, the loop over MatchPaths: the first key decides
MapMatch(w, m, ctx, name, keys, d) ==
  IF keys # << >> THEN MapEnter(w, m, ctx, keys[1], TrimPrefix(name, keys[1]), d)
  ELSE ROk(m, name)

\* MapFS.ResolveFS
MapResolveFS(w, m, ctx, name, d) ==
  IF name \in DOMAIN w.maps[m.id] THEN MapEnter(w, m, ctx, name, Dot, d)
  ELSE MapMatch(w, m, ctx, name, MatchPaths(DOMAIN w.maps[m.id], name), d)

\* UnionFS.ResolveFS, what the first loop does with member i's answer r
UnionMember(w, u, ctx, name, d, i, toStat, r) ==
  IF r.err = "notexist" THEN UnionPass1(w, u, ctx, name, d, i + 1, toStat)
  ELSE IF r.err # "ok" THEN r
  ELSE IF ~IsReadOnly(ctx) /\ IsCreator(r.fs) THEN r
  ELSE IF r.name # name \/ ~Equal(r.fs, w.unions[u.id][i]) THEN r
  ELSE UnionPass1(w, u, ctx, name, d, i + 1, Append(toStat, w.unions[u.id][i]))

\* UnionFS.ResolveFS, the loop over the members (toStat collects the queued ones)
UnionPass1(w, u, ctx, name, d, i, toStat) ==
  IF i > Len(w.unions[u.id]) THEN UnionPass2(w, u, ctx, name, d, toStat)
  ELSE IF IsResolver(w.unions[u.id][i])
  THEN UnionMember(w, u, ctx, name, d, i, toStat,
                   ResolveFS(w, w.unions[u.id][i], ctx, name, d - 1))
  ELSE UnionPass1(w, u, ctx, name, d, i + 1, Append(toStat, w.unions[u.id][i]))

\* UnionFS.ResolveFS, what the second loop does with the stat st of a queued member
UnionStatted(w, u, ctx, name, d, toStat, st) ==
  IF Crashed(st) THEN RErr("overflow")
  ELSE IF st.err # "ok" THEN UnionPass2(w, u, ctx, name, d, Tail(toStat))
  ELSE IF IsReadOnly(ctx) THEN ROk(Head(toStat), name)
  ELSE IF IsCreator(Head(toStat)) THEN ROk(Head(toStat), name)
  ELSE UnionPass2(w, u, ctx, name, d, Tail(toStat))

\* UnionFS.ResolveFS, the loop over toStat
UnionPass2(w, u, ctx, name, d, toStat) ==
  IF toStat = << >> THEN ROk(u, name)
  ELSE UnionStatted(w, u, ctx, name, d, toStat,
                    StatContext(w, Head(toStat), ctx, name, d - 1))

\* UnionFS.ResolveFS
UnionResolveFS(w, u, ctx, name, d) ==
  IF Len(w.unions[u.id]) = 0 THEN RErr("notexist")
  ELSE IF Len(w.unions[u.id]) = 1 THEN ROk(w.unions[u.id][1], name)
  ELSE IF name = Dot /\ IsReadOnly(ctx) THEN ROk(u, name)
  ELSE UnionPass1(w, u, ctx, name, d, 1, << >>)

\* NS.ResolveFS, the destinations above name that hold a binding, longest first
NSMatch(b, name) == SelectSeq(MatchPaths(DOMAIN b, name), LAMBDA bp : Len(b[bp]) > 0)

\* NSHop through the last binding of the destination instead of the first
NSHopLast(b, name, bindPath) ==
  ROk(b[bindPath][Len(b[bindPath])].fs,
      Join(b[bindPath][Len(b[bindPath])].path, TrimPrefix(name, bindPath)))

\* NS.ResolveFS, the hop through the first binding of destination bindPath
NSHop(b, name, bindPath) ==
  ROk(b[bindPath][1].fs, Join(b[bindPath][1].path, TrimPrefix(name, bindPath)))

\* NS.ResolveFS, the loop over the matching destinations: the first one decides
NSHops(b, n, name, bindPaths) ==
  IF bindPaths # << >> THEN NSHop(b, name, bindPaths[1]) ELSE ROk(n, name)

\* NS.ResolveFS on the binding table b of namespace n
NSResolve(b, n, name) ==
  IF name \in DOMAIN b
  THEN IF Len(b[name]) = 1
       THEN ROk(b[name][1].fs, b[name][1].path)
       ELSE ROk(n, name)
  ELSE NSHops(b, n, name, NSMatch(b, name))

\* NS.ResolveFS
NSResolveFS(w, n, ctx, name) == NSResolve(w.bindings[n.id], n, name)

\* a resolver that answers every name with a wrapper nothing has seen before
WrapResolveFS(s, name) == ROk(Wrap(s.id + 1), name)

\* a resolver i hops away from a leaf: each hop hands on to the next link
ChainResolveFS(s, name) ==
  IF s.id = 0 THEN ROk(Leaf(1), name) ELSE ROk(Chain(s.id - 1), name)

\* Stabilized without the comparison of the names
StabilizedByService(nextFS, nextName, currentFS, currentName) == Equal(nextFS, currentFS)

\* the fixpoint test of fs.Resolve's loop
Stabilized(nextFS, nextName, currentFS, currentName) ==
  Equal(nextFS, currentFS) /\ nextName = currentName

\* fs.Resolve's loop, after the resolver of iteration st.i answered r
Advance(st, r) ==
  IF r.err # "ok"
  THEN [st EXCEPT !.done = TRUE, !.res = RSteps(RErr(r.err), st.i + 1)]
  ELSE IF Stabilized(r.fs, r.name, st.fs, st.name)
  THEN [st EXCEPT !.done = TRUE, !.res = RSteps(ROk(st.fs, st.name), st.i + 1)]
  ELSE [st EXCEPT !.fs = r.fs, !.name = r.name, !.i = st.i + 1]

\* one iteration of fs.Resolve's loop; st.done once it has returned
ResolveStep(w, ctx, d, st) ==
  IF st.done THEN st
  ELSE IF ~IsResolver(st.fs)
  THEN [st EXCEPT !.done = TRUE, !.res = RSteps(ROk(st.fs, st.name), st.i)]
  ELSE Advance(st, ResolveFS(w, st.fs, ctx, st.name, d - 1))

\* the iterations that follow the state half, n of them at most
ResolveRest(w, ctx, d, half, n) ==
  IF half.done THEN half ELSE ResolveLoop(w, ctx, d, half, n)

\* n iterations of fs.Resolve's loop
ResolveLoop(w, ctx, d, st, n) ==
  IF n = 0 THEN st
  ELSE IF n = 1 THEN ResolveStep(w, ctx, d, st)
  ELSE ResolveRest(w, ctx, d, ResolveLoop(w, ctx, d, st, n \div 2), n - (n \div 2))

\* fs.Resolve's locals before the first iteration
ResolveStart(fsys, name) ==
  [fs |-> fsys, name |-> name, i |-> 0, done |-> FALSE, res |-> RSteps(RErr("ok"), 0)]

\* fs.Resolve's return: what the loop returned, or the error after the loop
ResolveEnd(st) == IF st.done THEN st.res ELSE RSteps(RErr("depth"), st.i)

\* Resolve with the loop condition i <= 100
ResolveOnePast(w, fsys, ctx, name, d) ==
  ResolveEnd(ResolveLoop(w, ctx, d, ResolveStart(fsys, name), MaxDepth + 1))

\* fs.Resolve
Resolve(w, fsys, ctx, name, d) ==
  ResolveEnd(ResolveLoop(w, ctx, d, ResolveStart(fsys, name), MaxDepth))

\* Capable with an assertion that every service passes
CapableAny(fsys, name, cap) == ROk(fsys, name)

\* fs.ResolveTo[T], the type assertion rfsys.(T)
Capable(fsys, name, cap) ==
  IF HasCap(fsys, cap) THEN ROk(fsys, name) ELSE RErr("notsupported")

\* fs.ResolveTo[T], after the second look rr at the resolved (r.fs, r.name)
ResolveAgain(r, rr, cap) ==
  IF Crashed(rr) THEN RErr("overflow")
  ELSE IF rr.err = "ok" /\ (~Equal(rr.fs, r.fs) \/ rr.name # r.name)
  THEN Capable(rr.fs, rr.name, cap)
  ELSE Capable(r.fs, r.name, cap)

\* fs.ResolveTo[T], after fs.Resolve returned r
ResolveToFrom(w, ctx, cap, d, r) ==
  IF r.err # "ok" THEN RErr(r.err)
  ELSE IF IsResolver(r.fs)
  THEN ResolveAgain(r, ResolveFS(w, r.fs, ctx, r.name, d - 1), cap)
  ELSE Capable(r.fs, r.name, cap)

\* fs.ResolveTo[T]
ResolveTo(w, fsys, ctx, name, cap, d) ==
  ResolveToFrom(w, ctx, cap, d, Resolve(w, fsys, ctx, name, d))

\* the listing of an opened file, if it is a directory
DirOf(f) ==
  IF f.err # "ok" THEN f
  ELSE IF ~f.dir THEN OErr("notdir")
  ELSE f

\* fs.ReadDirContext: open the directory and read its listing
ReadDirContext(w, fsys, ctx, name, d) == DirOf(OpenContext(w, fsys, ctx, name, d))

\* MapFS.StatContext
MapStatContext(w, m, ctx, name, d) ==
  IF ~ValidPath(name) THEN SErr("notexist")
  ELSE IF name = Dot THEN SOk(TRUE)
  ELSE IF name \in DOMAIN w.maps[m.id]
  THEN StatContext(w, w.maps[m.id][name], ctx, Dot, d - 1)
  ELSE StatOf(OpenContext(w, m, ctx, name, d - 1))

\* the key Go's range reaches first among those that are directories above name
FirstRanged(w, keys, name) ==
  IF w.ord = "long"
  THEN CHOOSE p \in keys : HasDirPrefix(name, p) /\ \A q \in keys : HasDirPrefix(name, q) => Len(q) <= Len(p)
  ELSE CHOOSE p \in keys : HasDirPrefix(name, p) /\ \A q \in keys : HasDirPrefix(name, q) => Len(p) <= Len(q)

\* the directory a listing is made under: "." is the root
Base(name) == IF name = Dot THEN Empty ELSE name

\* MapFS.OpenContext, fs.StatContext(ctx, subfs, ".") of the entry at key k
MapKeyStat(w, m, ctx, k, d) == StatContext(w, w.maps[m.id][k], ctx, Dot, d - 1)

\* MapFS.OpenContext, the keys whose entry the listing of name stats: "." stats
\* only the single-segment keys, any other name stats every key
MapSeen(w, m, name) ==
  IF name = Dot
  THEN {k \in DOMAIN w.maps[m.id] : Len(k) = 1 /\ k # Dot}
  ELSE DOMAIN w.maps[m.id]

\* MapFS.OpenContext, the names in list: the keys directly under name that stat
MapList(w, m, ctx, name, d) ==
  {<<k[Len(Base(name)) + 1]>> :
     k \in {k \in DOMAIN w.maps[m.id] :
              /\ HasDirPrefix(k, Base(name))
              /\ Len(k) = Len(Base(name)) + 1
              /\ k # Dot
              /\ MapKeyStat(w, m, ctx, k, d).err = "ok"}}

\* MapFS.OpenContext, the names in need: the first segment of the keys further below
MapNeed(w, m, ctx, name, d) ==
  {<<k[Len(Base(name)) + 1]>> :
     k \in {k \in DOMAIN w.maps[m.id] :
              /\ HasDirPrefix(k, Base(name))
              /\ Len(k) > Len(Base(name)) + 1
              /\ (name = Dot \/ MapKeyStat(w, m, ctx, k, d).err = "ok")}}

\* MapFS.OpenContext, the synthesized directory
MapOpenDir(w, m, ctx, name, d) ==
  IF \E k \in MapSeen(w, m, name) : Crashed(MapKeyStat(w, m, ctx, k, d)) THEN OErr("overflow")
  ELSE IF name # Dot /\ MapList(w, m, ctx, name, d) = {} /\ MapNeed(w, m, ctx, name, d) = {}
  THEN OErr("notexist")
  ELSE ODir(m, name, SortPaths(MapList(w, m, ctx, name, d) \cup MapNeed(w, m, ctx, name, d)))

\* MapFS.OpenContext
MapOpenContext(w, m, ctx, name, d) ==
  IF ~ValidPath(name) THEN OErr("notexist")
  ELSE IF name \in DOMAIN w.maps[m.id]
  THEN OpenContext(w, w.maps[m.id][name], ctx, Dot, d - 1)
  ELSE IF \E p \in DOMAIN w.maps[m.id] : HasDirPrefix(name, p)
  THEN OpenContext(w, w.maps[m.id][FirstRanged(w, DOMAIN w.maps[m.id], name)], ctx,
                   TrimPrefix(name, FirstRanged(w, DOMAIN w.maps[m.id], name)), d - 1)
  ELSE MapOpenDir(w, m, ctx, name, d)

\* UnionFS.OpenContext, what the merge does with member i's root listing e
UnionListed(w, u, ctx, d, i, entries, e) ==
  IF Crashed(e) THEN OErr("overflow")
  ELSE IF e.err # "ok" THEN UnionList(w, u, ctx, d, i + 1, entries)
  ELSE UnionList(w, u, ctx, d, i + 1, entries \o e.entries)

\* UnionFS.OpenContext, the merge of the members' root listings from member i on
UnionList(w, u, ctx, d, i, entries) ==
  IF i > Len(w.unions[u.id]) THEN ODir(u, Dot, entries)
  ELSE UnionListed(w, u, ctx, d, i, entries,
                   ReadDirContext(w, w.unions[u.id][i], ctx, Dot, d - 1))

\* UnionFS.OpenContext, after its own ResolveFS returned r
UnionOpened(w, u, ctx, name, d, r) ==
  IF r.err # "ok" THEN OErr(r.err)
  ELSE IF r.name # name \/ ~Equal(r.fs, u) THEN OpenContext(w, r.fs, ctx, r.name, d - 1)
  ELSE IF name # Dot THEN OErr("notexist")
  ELSE UnionList(w, u, ctx, d, 1, << >>)

\* UnionFS.OpenContext
UnionOpenContext(w, u, ctx, name, d) ==
  IF ~ValidPath(name) THEN OErr("invalid")
  ELSE UnionOpened(w, u, ctx, name, d, UnionResolveFS(w, u, ctx, name, d))

\* NS.StatContext, what the loop does with the info fi of binding i
NSStatRef(w, ctx, refs, i, d, fallthrough, fi) ==
  IF Crashed(fi) THEN fi
  ELSE IF fi.err # "ok" THEN NSStatRefs(w, ctx, refs, i + 1, d, fallthrough)
  ELSE fi

\* NS.StatContext, the loop over the bindings of a destination
NSStatRefs(w, ctx, refs, i, d, fallthrough) ==
  IF i > Len(refs) THEN fallthrough
  ELSE NSStatRef(w, ctx, refs, i, d, fallthrough,
                 StatContext(w, refs[i].fs, ctx, refs[i].path, d - 1))

\* NS.StatContext, the open of what fs.Resolve returned
NSStatOpened(w, ctx, d, r) ==
  IF r.err # "ok" THEN SErr(r.err)
  ELSE StatOf(OpenContext(w, r.fs, ctx, r.name, d - 1))

\* NS.StatContext, after fs.ResolveTo[StatContextFS] returned t
NSStatResolved(w, n, ctx, name, d, t) ==
  IF t.err \notin {"ok", "notsupported"} THEN SErr(t.err)
  ELSE IF t.err = "ok" /\ ~Equal(t.fs, n) THEN StatContext(w, t.fs, ctx, t.name, d - 1)
  ELSE NSStatOpened(w, ctx, d, Resolve(w, n, ctx, name, d - 1))

\* NS.StatContext
NSStatContext(w, n, ctx, name, d) ==
  IF ~ValidPath(name) THEN SErr("notexist")
  ELSE IF name = Dot THEN SOk(TRUE)
  ELSE NSStatRefs(w, ctx, Get(w.bindings[n.id], name), 1, d,
                  NSStatResolved(w, n, ctx, name, d,
                                 ResolveTo(w, n, ctx, name, "stat", d - 1)))

\* what NS.OpenContext's loops hand on: either the file to return, or the
\* directory found so far (foundDir) with its collected dirEntries
Returned(f) == [done |-> TRUE, res |-> f, found |-> FALSE, entries |-> << >>]

Collected(found, entries) == [done |-> FALSE, res |-> OErr("ok"), found |-> found, entries |-> entries]

\* NS.OpenContext, the path a binding is looked at: the direct-binding loop
\* (cached) uses ref.path, the subpath loop joins the rest of the name to it
RefPath(ref, rest, cached) == IF cached THEN ref.path ELSE Join(ref.path, rest)

\* NS.OpenContext, a directory binding: its listing is added to dirEntries
ScanDir(w, ctx, refs, rest, cached, i, acc, d, entries) ==
  IF entries.err # "ok" THEN Returned(OErr(entries.err))
  ELSE ScanRefs(w, ctx, refs, rest, cached, i + 1,
                Collected(TRUE, acc.entries \o entries.entries), d)

\* NS.OpenContext, a file binding: the file is returned if it opens
ScanFile(w, ctx, refs, rest, cached, i, acc, d, file) ==
  IF file.err = "ok" \/ Crashed(file) THEN Returned(file)
  ELSE ScanRefs(w, ctx, refs, rest, cached, i + 1, acc, d)

\* NS.OpenContext, what a loop does with binding i once its info fi is known
ScanRef(w, ctx, refs, rest, cached, i, acc, d, fi) ==
  IF Crashed(fi) THEN Returned(OErr("overflow"))
  ELSE IF fi.err # "ok" THEN ScanRefs(w, ctx, refs, rest, cached, i + 1, acc, d)
  ELSE IF fi.dir
  THEN ScanDir(w, ctx, refs, rest, cached, i, acc, d,
               ReadDirContext(w, refs[i].fs, ctx, RefPath(refs[i], rest, cached), d - 1))
  ELSE ScanFile(w, ctx, refs, rest, cached, i, acc, d,
                OpenContext(w, refs[i].fs, ctx, RefPath(refs[i], rest, cached), d - 1))

\* NS.OpenContext, one loop over the bindings refs of a destination: cached is
\* TRUE in the direct-binding loop (it trusts ref.fi) and FALSE in the subpath
\* loop (it stats join(ref.path, rest))
ScanRefs(w, ctx, refs, rest, cached, i, acc, d) ==
  IF i > Len(refs) THEN acc
  ELSE ScanRef(w, ctx, refs, rest, cached, i, acc, d,
               IF cached THEN SOk(refs[i].dir)
               ELSE StatContext(w, refs[i].fs, ctx, RefPath(refs[i], rest, cached), d - 1))

\* NS.OpenContext, after the bindings of destination j were looked at
ScanPath(w, n, ctx, name, paths, j, d, got) ==
  IF got.done THEN got
  ELSE ScanPaths(w, n, ctx, name, paths, j + 1, got, d)

\* NS.OpenContext, the loop over the destinations that are directories above name
ScanPaths(w, n, ctx, name, paths, j, acc, d) ==
  IF j > Len(paths) THEN acc
  ELSE ScanPath(w, n, ctx, name, paths, j, d,
                ScanRefs(w, ctx, w.bindings[n.id][paths[j]], TrimPrefix(name, paths[j]),
                         FALSE, 1, acc, d))

RECURSIVE Repeated(_, _)
\* each key k of S, count[k] times over
Repeated(S, count) ==
  IF S = {} THEN << >>
  ELSE LET k == CHOOSE x \in S : TRUE
       IN  [i \in 1..count[k] |-> k] \o Repeated(S \ {k}, count)

\* NS.OpenContext, the destinations below name
NSUnder(b, name) == {k \in DOMAIN b : HasDirPrefix(k, Base(name)) /\ k # Dot}

\* NS.OpenContext, the destinations directly under name
NSDirect(b, name) == {k \in NSUnder(b, name) : Len(k) = Len(Base(name)) + 1}

\* ref.fileInfo of binding i of destination k
NSInfo(w, n, ctx, k, i, d) ==
  StatContext(w, w.bindings[n.id][k][i].fs, ctx, w.bindings[n.id][k][i].path, d - 1)

\* NS.OpenContext, the synthesized entries: one for every binding that stats of
\* a destination directly under name
NSSynthEntries(w, n, ctx, name, d) ==
  Repeated(NSDirect(w.bindings[n.id], name),
           [k \in NSDirect(w.bindings[n.id], name) |->
              Cardinality({i \in 1..Len(w.bindings[n.id][k]) : NSInfo(w, n, ctx, k, i, d).err = "ok"})])

\* NS.OpenContext, need: the first segments of the destinations further below
NSSynthNeed(b, name) ==
  {<<k[Len(Base(name)) + 1]>> : k \in NSUnder(b, name) \ NSDirect(b, name)}

NSSynthCrashed(w, n, ctx, name, d) ==
  \E k \in NSDirect(w.bindings[n.id], name) :
     \E i \in 1..Len(w.bindings[n.id][k]) : Crashed(NSInfo(w, n, ctx, k, i, d))

\* NSOpenDir without the test that tells a name with nothing under it from a directory
NSOpenDirSynthesized(n, name, found, dirEntries, need) ==
  ODir(n, name, SortByName(dirEntries \o SortPaths(need \ Range(dirEntries))))

\* NS.OpenContext, the directory it returns when no binding gave a file
NSOpenDir(n, name, found, dirEntries, need) ==
  IF name # Dot /\ dirEntries = << >> /\ need = {} /\ ~found
  THEN OErr("notexist")
  ELSE ODir(n, name, SortByName(dirEntries \o SortPaths(need \ Range(dirEntries))))

\* NS.OpenContext, after the subpath loop handed on p2
NSOpenSub(w, n, ctx, name, d, p2) ==
  IF p2.done THEN p2.res
  ELSE IF NSSynthCrashed(w, n, ctx, name, d) THEN OErr("overflow")
  ELSE NSOpenDir(n, name, p2.found, p2.entries \o NSSynthEntries(w, n, ctx, name, d),
                 NSSynthNeed(w.bindings[n.id], name))

\* NS.OpenContext, the loop over the bindings above name, entered with p1
NSScanSub(w, n, ctx, name, d, p1) ==
  ScanPaths(w, n, ctx, name, MatchPaths(DOMAIN w.bindings[n.id], name), 1, p1, d)

\* NS.OpenContext, after the direct-binding loop handed on p1
NSOpenDirect(w, n, ctx, name, d, p1) ==
  IF p1.done THEN p1.res
  ELSE NSOpenSub(w, n, ctx, name, d, NSScanSub(w, n, ctx, name, d, p1))

\* NS.OpenContext, the loop over the direct bindings of name
NSScanDirect(w, n, ctx, name, d) ==
  IF name \in DOMAIN w.bindings[n.id]
  THEN ScanRefs(w, ctx, w.bindings[n.id][name], Empty, TRUE, 1, Collected(FALSE, << >>), d)
  ELSE Collected(FALSE, << >>)

\* NS.OpenContext
NSOpenContext(w, n, ctx, name, d) ==
  IF ~ValidPath(name) THEN OErr("notexist")
  ELSE NSOpenDirect(w, n, ctx, name, d, NSScanDirect(w, n, ctx, name, d))

\* ------------------------------------------------------- the task service

\* FromContext(ctx): the task the context carries, 0 when it carries none
FromContext(ctx) == IF ctx.task \in 1..MaxTasks THEN ctx.task ELSE 0

\* ServiceResolveFS that builds m for task 1 whatever the context carries
ServiceResolveFSOfFirst(s, ctx, name) ==
  IF name = Dot THEN ROk(s, Dot)
  ELSE ROk(Union(MBase + 1), name)

\* Service.ResolveFS: "." is the service itself, any other name is handed to the
\* union of m and the map of the registry
ServiceResolveFS(s, ctx, name) ==
  IF name = Dot THEN ROk(s, Dot)
  ELSE ROk(Union(MBase + FromContext(ctx)), name)

\* Service.StatContext
ServiceStatContext(w, s, ctx, name, d) ==
  IF name = Dot THEN SOk(TRUE)
  ELSE StatContext(w, ServiceResolveFS(s, ctx, name).fs, ctx,
                   ServiceResolveFS(s, ctx, name).name, d - 1)

\* the registry keys in the order the range over d.resources reaches them
RangedKeys(w) ==
  IF w.ord = "long" THEN SortPaths({<<key>> : key \in DOMAIN w.resources})
  ELSE Reverse(SortPaths({<<key>> : key \in DOMAIN w.resources}))

\* ServiceOpenRoot that lists "self" whatever the context carries
ServiceOpenRootWithSelf(w, s, ctx) ==
  ODir(s, Dot, <<<<"new">>>> \o RangedKeys(w) \o <<<<"self">>>>)

\* Service.OpenContext of ".": "new", the registry keys, and "self" under a context
\* that carries a task
ServiceOpenRoot(w, s, ctx) ==
  ODir(s, Dot, <<<<"new">>>> \o RangedKeys(w)
               \o (IF FromContext(ctx) # 0 THEN <<<<"self">>>> ELSE << >>))

\* Service.OpenContext
ServiceOpenContext(w, s, ctx, name, d) ==
  IF name = Dot THEN ServiceOpenRoot(w, s, ctx)
  ELSE OpenContext(w, ServiceResolveFS(s, ctx, name).fs, ctx,
                   ServiceResolveFS(s, ctx, name).name, d - 1)

\* the dynamic dispatch of a call on a file service: which method body runs
\* for ResolveFS, StatContext and OpenContext on each kind of service; d is the
\* stack left
Call(w, s, ctx, name, d, op) ==
  CASE op = "resolve" ->
         IF d <= 0 THEN RErr("overflow")
         ELSE CASE s.k = "map" -> MapResolveFS(w, s, ctx, name, d)
                [] s.k = "union" -> UnionResolveFS(w, s, ctx, name, d)
                [] s.k = "ns" -> NSResolveFS(w, s, ctx, name)
                [] s.k = "wrap" -> WrapResolveFS(s, name)
                [] s.k = "chain" -> ChainResolveFS(s, name)
                [] s.k = "task" -> ServiceResolveFS(s, ctx, name)
                [] OTHER -> RErr("notsupported")
    [] op = "stat" ->
         IF d <= 0 THEN SErr("overflow")
         ELSE CASE s.k = "map" -> MapStatContext(w, s, ctx, name, d)
                [] s.k = "ns" -> NSStatContext(w, s, ctx, name, d)
                [] s.k = "task" -> ServiceStatContext(w, s, ctx, name, d)
                [] OTHER -> StatOf(Call(w, s, ctx, name, d - 1, "open"))
    [] OTHER ->
         IF d <= 0 THEN OErr("overflow")
         ELSE CASE s.k = "leaf" -> LeafOpen(w, s, name)
                [] s.k = "map" -> MapOpenContext(w, s, ctx, name, d)
                [] s.k = "union" -> UnionOpenContext(w, s, ctx, name, d)
                [] s.k = "ns" -> NSOpenContext(w, s, ctx, name, d)
                [] s.k = "task" -> ServiceOpenContext(w, s, ctx, name, d)
                [] OTHER -> OErr("notexist")

\* ------------------------------------------------------ the namespace table

\* bindTarget{fs, path, fi}: fi is kept as the one bit the namespace reads of it
BindTarget(fs, path, isDir) == [fs |-> fs, path |-> path, dir |-> isDir]

\* the (fs, path) pairs of a binding list, without the cached FileInfo
Refs(list) == [i \in DOMAIN list |-> <<list[i].fs, list[i].path>>]

\* a binding table without the cached FileInfo
Table(b) == [k \in DOMAIN b |-> Refs(b[k])]

RECURSIVE SumLen(_, _)
SumLen(b, keys) ==
  IF keys = {} THEN 0
  ELSE LET k == CHOOSE x \in keys : TRUE IN Len(b[k]) + SumLen(b, keys \ {k})

\* how many bindings namespace id holds
Size(b) == SumLen(b, DOMAIN b)

TotalSize == SumLen([n \in live |-> [i \in 1..Size(bindings[n]) |-> 0]], live)

\* Inserted with the cases "after" and "before" exchanged
InsertedSwapped(old, ref, mode) ==
  CASE mode \in {"", "after"} -> <<TRUE, Append(old, ref)>>
    [] mode = "before" -> <<TRUE, <<ref>> \o old>>
    [] mode = "replace" -> <<TRUE, <<ref>>>>
    [] OTHER -> <<FALSE, old>>

\* NS.Bind's switch on mode: the new list of the destination, or no list at all
\* for a mode it does not know
Inserted(old, ref, mode) ==
  CASE mode \in {"", "after"} -> <<TRUE, <<ref>> \o old>>
    [] mode = "before" -> <<TRUE, Append(old, ref)>>
    [] mode = "replace" -> <<TRUE, <<ref>>>>
    [] OTHER -> <<FALSE, old>>

\* Deleted that stops at the first binding it removes
DeletedFirst(list, rfsys, rname) ==
  IF \E i \in DOMAIN list : Equal(list[i].fs, rfsys) /\ list[i].path = rname
  THEN SubSeq(list, 1, (CHOOSE i \in DOMAIN list :
                          /\ Equal(list[i].fs, rfsys) /\ list[i].path = rname
                          /\ \A j \in 1..(i - 1) : ~(Equal(list[j].fs, rfsys) /\ list[j].path = rname)) - 1)
       \o SubSeq(list, (CHOOSE i \in DOMAIN list :
                          /\ Equal(list[i].fs, rfsys) /\ list[i].path = rname
                          /\ \A j \in 1..(i - 1) : ~(Equal(list[j].fs, rfsys) /\ list[j].path = rname)) + 1,
                 Len(list))
  ELSE list

\* slices.DeleteFunc(list, ref matches (rfsys, rname))
Deleted(list, rfsys, rname) ==
  SelectSeq(list, LAMBDA ref : ~(Equal(ref.fs, rfsys) /\ ref.path = rname))

\* context.Background()
Background == Ctx(FALSE, 0)

\* the goroutines that bind and unbind on a namespace they share
Writers == {1, 2}

\* no call in progress
NoCall == [pc |-> "idle", op |-> "", src |-> NoFS, dst |-> Empty, mode |-> "", err |-> "",
           list |-> << >>]

NoOpen == [pc |-> "idle", name |-> Empty, ctx |-> Background, p |-> Collected(FALSE, << >>),
           start |-> EmptyMap]

NoRun == [open |-> NoOpen, call |-> [t \in Writers |-> NoCall], init |-> EmptyMap,
          fatal |-> FALSE]


\* the context rfsys.Open(rname) runs under: Open passes the service's own
Own(fsys) == IF fsys.k = "ns" THEN ContextFor(fsys.id) ELSE Background

\* ------------------------------------------------------------------ create

RECURSIVE Create(_, _, _, _, _)
RECURSIVE UnionCreate(_, _, _, _, _, _, _)
RECURSIVE UnionCreateOpen(_, _, _, _, _, _, _)

\* what a create returns: the file or the error; whether the file came from a
\* Create or from an Open (via) and the context that call was given (at); the
\* Create calls made on leaf services, in order (made); the files the leaf
\* services have created once it returns (created)
Made(file, via, at, made, files) ==
  [err |-> file.err, dir |-> file.dir, fs |-> file.fs, name |-> file.name,
   entries |-> file.entries, via |-> via, at |-> at, made |-> made, created |-> files]

\* the directory a name lies in
Parent(name) == IF Len(name) <= 1 THEN Dot ELSE SubSeq(name, 1, Len(name) - 1)

\* the world once the leaf services hold files
Holding(w, files) == [w EXCEPT !.created = files]

\* Create(name) on a leaf service that is a Creator: it has no context
\* parameter, the file is made under a background context
LeafCreate(w, s, name, made) ==
  IF s = NewFunc
  THEN Made(LeafOpen(w, s, name), "create", Background, Append(made, <<s, name>>), w.created)
  ELSE IF s.id = 4 \/ name \in LeafDirs(s.id)
  THEN Made(OErr("permission"), "create", Background, Append(made, <<s, name>>), w.created)
  ELSE IF ~ValidPath(name)
  THEN Made(OErr("invalid"), "create", Background, Append(made, <<s, name>>), w.created)
  ELSE IF Parent(name) \notin LeafDirs(s.id)
  THEN Made(OErr("notexist"), "create", Background, Append(made, <<s, name>>), w.created)
  ELSE Made(OFile(s, name), "create", Background, Append(made, <<s, name>>),
            IF name \in LeafFiles(s.id) THEN w.created ELSE w.created \cup {<<s.id, name>>})

\* fs.OpenContext(ctx, fsys, name) as the fallback of a create
OpenedInstead(w, ctx, made, file) == Made(file, "open", ctx, made, w.created)

\* a create that returns err without reaching a service
Refused(w, ctx, made, err) == Made(OErr(err), "none", ctx, made, w.created)

\* the step shared by the CreateContext methods: Create on a target that is a
\* Creator, else fs.OpenContext on it
CreateOrOpen(w, target, ctx, name, made, d) ==
  IF IsCreator(target) THEN Create(w, target, name, made, d - 1)
  ELSE OpenedInstead(w, ctx, made, OpenContext(w, target, ctx, name, d - 1))

\* MapFS.CreateContext
MapCreateContext(w, m, ctx, name, made, d) ==
  IF ~ValidPath(name) THEN Refused(w, ctx, made, "invalid")
  ELSE IF name \in DOMAIN w.maps[m.id]
  THEN CreateOrOpen(w, w.maps[m.id][name], ctx, Dot, made, d)
  ELSE IF \E p \in DOMAIN w.maps[m.id] : HasDirPrefix(name, p)
  THEN CreateOrOpen(w, w.maps[m.id][FirstRanged(w, DOMAIN w.maps[m.id], name)], ctx,
                    TrimPrefix(name, FirstRanged(w, DOMAIN w.maps[m.id], name)), made, d)
  ELSE Refused(w, ctx, made, "notexist")

\* UnionFS.CreateContext, what the second loop does with the open of member i
UnionCreateOpened(w, u, ctx, name, d, i, made, file) ==
  IF file.err = "ok" THEN OpenedInstead(w, ctx, made, file)
  ELSE IF file.err # "notexist" THEN OpenedInstead(w, ctx, made, OErr(file.err))
  ELSE UnionCreateOpen(w, u, ctx, name, d, i + 1, made)

\* UnionFS.CreateContext, the loop that opens the members instead, from member i on
UnionCreateOpen(w, u, ctx, name, d, i, made) ==
  IF i > Len(w.unions[u.id]) THEN Refused(w, ctx, made, "notexist")
  ELSE UnionCreateOpened(w, u, ctx, name, d, i, made,
                         OpenContext(w, w.unions[u.id][i], ctx, name, d - 1))

\* UnionFS.CreateContext, what the first loop does with the answer r of member i
UnionCreated(w, u, ctx, name, d, i, r) ==
  IF r.err = "ok" THEN r
  ELSE IF r.err # "notexist" THEN Made(OErr(r.err), r.via, r.at, r.made, r.created)
  ELSE UnionCreate(Holding(w, r.created), u, ctx, name, d, i + 1, r.made)

\* UnionFS.CreateContext, the loop over the members that are Creators, from member i on
UnionCreate(w, u, ctx, name, d, i, made) ==
  IF i > Len(w.unions[u.id]) THEN UnionCreateOpen(w, u, ctx, name, d, 1, made)
  ELSE IF IsCreator(w.unions[u.id][i])
  THEN UnionCreated(w, u, ctx, name, d, i, Create(w, w.unions[u.id][i], name, made, d - 1))
  ELSE UnionCreate(w, u, ctx, name, d, i + 1, made)

\* UnionFS.CreateContext
UnionCreateContext(w, u, ctx, name, made, d) ==
  IF ~ValidPath(name) THEN Refused(w, ctx, made, "invalid")
  ELSE UnionCreate(w, u, ctx, name, d, 1, made)

\* NS.CreateContext, the destinations that are directories above name and hold a binding
NSCreateAbove(b, name) == {k \in DOMAIN b : HasDirPrefix(name, k) /\ Len(b[k]) > 0}

\* NS.CreateContext, the first binding of the destination bname that the range reached
NSCreateUnder(w, b, ctx, name, made, d, bname) ==
  CreateOrOpen(w, b[bname][1].fs, ctx, Join(b[bname][1].path, TrimPrefix(name, bname)), made, d)

\* NS.CreateContext
NSCreateContext(w, n, ctx, name, made, d) ==
  IF ~ValidPath(name) THEN Refused(w, ctx, made, "invalid")
  ELSE IF name \in DOMAIN w.bindings[n.id] /\ Len(Get(w.bindings[n.id], name)) > 0
  THEN CreateOrOpen(w, w.bindings[n.id][name][1].fs, ctx, w.bindings[n.id][name][1].path, made, d)
  ELSE IF NSCreateAbove(w.bindings[n.id], name) # {}
  THEN NSCreateUnder(w, w.bindings[n.id], ctx, name, made, d,
                     FirstRanged(w, NSCreateAbove(w.bindings[n.id], name), name))
  ELSE Refused(w, ctx, made, "notexist")

\* Service.CreateContext, the path through ResolveFS: Create on what the name resolved
\* to if that is a Creator
ServiceCreateResolved(w, ctx, name, made, d, r) ==
  IF r.err # "ok" THEN Refused(w, ctx, made, r.err)
  ELSE IF IsCreator(r.fs) THEN Create(w, r.fs, r.name, made, d - 1)
  ELSE Refused(w, ctx, made, "permission")

\* ServiceCreateContext that hands the task the whole name, its own key included
ServiceCreateWholeName(w, s, ctx, name, made, d) ==
  IF Len(name) > 1 /\ name[1] \in DOMAIN w.resources
  THEN CreateOrOpen(w, Resource(w.resources[name[1]].id), ctx, name, made, d)
  ELSE ServiceCreateResolved(w, ctx, name, made, d, ServiceResolveFS(s, ctx, name))

\* Service.CreateContext: a name that begins with a registry key and a "/" goes to
\* that task with the rest of the name
ServiceCreateContext(w, s, ctx, name, made, d) ==
  IF Len(name) > 1 /\ name[1] \in DOMAIN w.resources
  THEN CreateOrOpen(w, Resource(w.resources[name[1]].id), ctx, Tail(name), made, d)
  ELSE ServiceCreateResolved(w, ctx, name, made, d, ServiceResolveFS(s, ctx, name))

\* the CreateContext method of a composite service
CreateContext(w, s, ctx, name, made, d) ==
  CASE s.k = "map" -> MapCreateContext(w, s, ctx, name, made, d)
    [] s.k = "union" -> UnionCreateContext(w, s, ctx, name, made, d)
    [] s.k = "ns" -> NSCreateContext(w, s, ctx, name, made, d)
    [] s.k = "task" -> ServiceCreateContext(w, s, ctx, name, made, d)
    [] OTHER -> Refused(w, ctx, made, "notsupported")

\* the method call cfs.Create(name) on whatever the service is: Create has no
\* context parameter, a composite goes on under its own context; d is the
\* stack left
Create(w, s, name, made, d) ==
  IF d <= 0 THEN Refused(w, Own(s), made, "overflow")
  ELSE IF s.k = "leaf" THEN LeafCreate(w, s, name, made)
  ELSE CreateContext(w, s, Own(s), name, made, d)

\* what NS.Bind and NS.Unbind come to: the error, the table they leave and what
\* the source resolved to
Done(err, table, r, isDir) ==
  [err |-> err, table |-> table, fs |-> r.fs, name |-> r.name, steps |-> r.steps,
   dir |-> isDir, entries |-> << >>]

\* an early return with an error: the table is as it was
Failed(b, e) == Done(e, b, RSteps(RErr(e), 0), FALSE)

\* BindStored that puts the binding at the head of the list before it finds
\* that it does not know the mode
BindStoredFirst(b, dstPath, mode, r, isDir) ==
  IF Inserted(Get(b, dstPath), BindTarget(r.fs, r.name, isDir), mode)[1]
  THEN Done("ok", Put(b, dstPath, Inserted(Get(b, dstPath), BindTarget(r.fs, r.name, isDir), mode)[2]),
            r, isDir)
  ELSE Done("invalid", Put(b, dstPath, <<BindTarget(r.fs, r.name, isDir)>> \o Get(b, dstPath)),
            RSteps(RErr("invalid"), 0), FALSE)

\* NS.Bind, the switch on mode
BindStored(b, dstPath, mode, r, isDir) ==
  IF Inserted(Get(b, dstPath), BindTarget(r.fs, r.name, isDir), mode)[1]
  THEN Done("ok", Put(b, dstPath, Inserted(Get(b, dstPath), BindTarget(r.fs, r.name, isDir), mode)[2]),
            r, isDir)
  ELSE Failed(b, "invalid")

\* NS.Bind, after rfsys.Open(rname) returned file
BindOpened(b, dstPath, mode, r, file) ==
  IF file.err # "ok" THEN Failed(b, file.err)
  ELSE BindStored(b, dstPath, mode, r, file.dir)

\* BindResolved that stores the source as it was passed, not what it resolved to
BindUnresolved(w, n, src, srcPath, dstPath, mode, r) ==
  IF r.err # "ok" THEN Failed(w.bindings[n], r.err)
  ELSE BindOpened(w.bindings[n], dstPath, mode, RSteps(ROk(src, srcPath), r.steps),
                  OpenContext(w, r.fs, Own(r.fs), r.name, MaxStack))

\* NS.Bind, after fs.Resolve returned r
BindResolved(w, n, src, srcPath, dstPath, mode, r) ==
  IF r.err # "ok" THEN Failed(w.bindings[n], r.err)
  ELSE BindOpened(w.bindings[n], dstPath, mode, r,
                  OpenContext(w, r.fs, Own(r.fs), r.name, MaxStack))

\* NS.Bind on namespace n of the world w
BindIn(w, n, src, srcPath, dstPath, mode) ==
  IF ~ValidPath(srcPath) \/ ~ValidPath(dstPath) THEN Failed(w.bindings[n], "notexist")
  ELSE BindResolved(w, n, src, srcPath, dstPath, mode,
                    Resolve(w, src, ContextFor(n), srcPath, MaxStack))

\* UnbindResolved without the delete of a destination left with no binding
UnbindLeavesKey(b, dstPath, r) ==
  IF r.err # "ok" THEN Failed(b, r.err)
  ELSE Done("ok", Put(b, dstPath, Deleted(Get(b, dstPath), r.fs, r.name)), r, FALSE)

\* NS.Unbind, the deletion of the bindings that match what the source resolved to
UnbindResolved(b, dstPath, r) ==
  IF r.err # "ok" THEN Failed(b, r.err)
  ELSE IF Len(Deleted(Get(b, dstPath), r.fs, r.name)) = 0
  THEN Done("ok", Del(b, dstPath), r, FALSE)
  ELSE Done("ok", Put(b, dstPath, Deleted(Get(b, dstPath), r.fs, r.name)), r, FALSE)

\* NS.Unbind on namespace n of the world w
UnbindIn(w, n, src, srcPath, dstPath) ==
  IF ~ValidPath(srcPath) \/ ~ValidPath(dstPath) THEN Failed(w.bindings[n], "notexist")
  ELSE UnbindResolved(w.bindings[n], dstPath,
                      Resolve(w, src, ContextFor(n), srcPath, MaxStack))

\* the world once namespace n holds table
With(w, n, table) == [w EXCEPT !.bindings = [w.bindings EXCEPT ![n] = table]]

\* Unbind right after a Bind that came to bound: the Unbind runs only if the Bind
\* returned no error
ThenUnbind(w, n, src, srcPath, dstPath, bound) ==
  IF bound.err # "ok" THEN bound
  ELSE UnbindIn(With(w, n, bound.table), n, src, srcPath, dstPath)

\* ----------------------------------------------------------- the machine

NsIds == {1, 2}

\* the MapFS values the callers have built: 1 is MapFS{"dom": leaf}, 2 nests it
\* under "web", 3 nests that under "a", 4 has a key above another key, 5 holds
\* under "p" the leaf that refuses every call
StdMaps ==
  [i \in 1..5 |->
     CASE i = 1 -> [x \in {<<"dom">>} |-> Leaf(1)]
       [] i = 2 -> [x \in {<<"web">>} |-> Map(1)]
       [] i = 3 -> [x \in {<<"a">>} |-> Map(2)]
       [] i = 5 -> [x \in {<<"p">>} |-> Leaf(4)]
       [] OTHER -> [x \in {<<"dom">>, <<"dom", "1">>} |-> IF x = <<"dom">> THEN Leaf(1) ELSE Leaf(2)]]

\* the UnionFS values: 1 has a MapFS and a leaf, 2 has no member, 3 has a leaf
\* that is no Creator before one that is, both holding x, 4 has the leaf that
\* refuses every call before a leaf that answers, 5 has two leaves neither of
\* which is a Creator, the first holding x
StdUnions ==
  [i \in 1..5 |->
     CASE i = 1 -> <<Map(1), Leaf(2)>>
       [] i = 2 -> << >>
       [] i = 3 -> <<Leaf(3), Leaf(2)>>
       [] i = 4 -> <<Leaf(4), Leaf(2)>>
       [] OTHER -> <<Leaf(3), Leaf(1)>>]

Out(op, n, fs, name, dst, mode, ctx, r) ==
  [op |-> op, ns |-> n, fs |-> fs, name |-> name, dst |-> dst, mode |-> mode,
   ctx |-> ctx, err |-> r.err, rfs |-> r.fs, rname |-> r.name,
   steps |-> r.steps, dir |-> r.dir, entries |-> r.entries, prev |-> EmptyMap,
   via |-> "none", at |-> Background, made |-> << >>, id |-> 0, was |-> 0]

\* the fields of a result that an operation does not produce
Res(err, fs, name, steps, isDir, entries) ==
  [err |-> err, fs |-> fs, name |-> name, steps |-> steps, dir |-> isDir, entries |-> entries]

\* vfs.New: one namespace, no bindings
Init ==
  /\ maps = StdMaps
  /\ unions = StdUnions
  /\ bindings = [n \in NsIds |-> EmptyMap]
  /\ live = {1}
  /\ created = {}
  /\ nextID = 0
  /\ resources = EmptyMap
  /\ run = NoRun
  /\ out = Out("new", 1, NoFS, Empty, Empty, "", Background, Res("ok", NoFS, Empty, 0, FALSE, << >>))

\* a mutation of namespace n has come to res: the table and the record of it
Commit(op, n, src, srcPath, dstPath, mode, res) ==
  /\ TotalSize - Size(bindings[n]) + Size(res.table) <= MaxTotal
  /\ bindings' = [bindings EXCEPT ![n] = res.table]
  /\ out' = [Out(op, n, src, srcPath, dstPath, mode, ContextFor(n), res) EXCEPT !.prev = bindings[n]]
  /\ UNCHANGED <<run, maps, unions, live, created, nextID, resources>>

\* NS.Bind
Bind(n, src, srcPath, dstPath, mode, ord) ==
  /\ n \in live
  /\ Commit("bind", n, src, srcPath, dstPath, mode,
            BindIn(World(ord), n, src, srcPath, dstPath, mode))

\* NS.Unbind
Unbind(n, src, srcPath, dstPath, ord) ==
  /\ n \in live
  /\ Commit("unbind", n, src, srcPath, dstPath, "",
            UnbindIn(World(ord), n, src, srcPath, dstPath))

\* a caller binds with mode "after" and unbinds the same source right away
RoundTrip(n, src, srcPath, dstPath, ord) ==
  /\ n \in live
  /\ Commit(IF BindIn(World(ord), n, src, srcPath, dstPath, "after").err = "ok"
            THEN "roundtrip" ELSE "bind",
            n, src, srcPath, dstPath, "after",
            ThenUnbind(World(ord), n, src, srcPath, dstPath,
                       BindIn(World(ord), n, src, srcPath, dstPath, "after")))

\* Clone that returns the new table before anything is copied into it
CloneEmpty(n, c) ==
  /\ n \in live
  /\ c \notin live
  /\ TotalSize + Size(bindings[n]) <= MaxTotal
  /\ bindings' = [bindings EXCEPT ![c] = EmptyMap]
  /\ live' = live \cup {c}
  /\ out' = Out("clone", n, NS(c), Empty, Empty, "", ContextFor(c),
                Res("ok", NS(c), Empty, 0, FALSE, << >>))
  /\ UNCHANGED <<run, maps, unions, created, nextID, resources>>

\* NS.Clone: a new namespace c with a copy of n's table
Clone(n, c) ==
  /\ n \in live
  /\ c \notin live
  /\ TotalSize + Size(bindings[n]) <= MaxTotal
  /\ bindings' = [bindings EXCEPT ![c] = [k \in DOMAIN bindings[n] |-> bindings[n][k]]]
  /\ live' = live \cup {c}
  /\ out' = Out("clone", n, NS(c), Empty, Empty, "", ContextFor(c),
                Res("ok", NS(c), Empty, 0, FALSE, << >>))
  /\ UNCHANGED <<run, maps, unions, created, nextID, resources>>

\* the record of a query that came to r
Answer(op, fsys, ctx, name, r) ==
  /\ out' = Out(op, 0, fsys, name, Empty, "", ctx, r)
  /\ UNCHANGED <<run, maps, unions, bindings, live, created, nextID, resources>>

\* what fs.Resolve returned, as a result record
Resolved(r) == Res(r.err, r.fs, r.name, r.steps, FALSE, << >>)

\* what an open returned, as a result record
Opened(f) == Res(f.err, f.fs, f.name, 0, f.dir, f.entries)

\* a caller runs fs.Resolve
DoResolve(fsys, ctx, name, ord) ==
  Answer("resolve", fsys, ctx, name, Resolved(Resolve(World(ord), fsys, ctx, name, MaxStack)))

\* a caller, as fs.Resolve does, calls the ResolveFS method of a resolver once
DoResolveFS(fsys, ctx, name, ord) ==
  /\ IsResolver(fsys)
  /\ Answer("hop", fsys, ctx, name,
            Resolved(RSteps(ResolveFS(World(ord), fsys, ctx, name, MaxStack), 1)))

\* what a stat returned, as a result record
Statted(fi) == Res(fi.err, NoFS, Empty, 0, fi.dir, << >>)

\* a caller runs fs.StatContext
DoStat(fsys, ctx, name, ord) ==
  Answer("stat", fsys, ctx, name, Statted(StatContext(World(ord), fsys, ctx, name, MaxStack)))

\* a caller runs fs.ResolveTo[T]; the record keeps the capability T asked for
\* where a Bind keeps its mode
DoResolveTo(fsys, ctx, name, cap, ord) ==
  /\ out' = Out("resolveto", 0, fsys, name, Empty, cap, ctx,
                Resolved(RSteps(ResolveTo(World(ord), fsys, ctx, name, cap, MaxStack), 0)))
  /\ UNCHANGED <<run, maps, unions, bindings, live, created, nextID, resources>>

\* a caller opens a name
DoOpen(fsys, ctx, name, ord) ==
  Answer("open", fsys, ctx, name, Opened(OpenContext(World(ord), fsys, ctx, name, MaxStack)))

\* the record of a create that came to r, and the files the leaves hold after it
Created(fsys, ctx, name, r) ==
  /\ out' = [Out("create", 0, fsys, name, Empty, "", ctx,
                 Res(r.err, r.fs, r.name, 0, r.dir, r.entries))
             EXCEPT !.via = r.via, !.at = r.at, !.made = r.made]
  /\ created' = r.created
  /\ UNCHANGED <<run, maps, unions, bindings, live, nextID, resources>>

\* a caller runs CreateContext on a composite service
DoCreate(fsys, ctx, name, ord) ==
  Created(fsys, ctx, name, CreateContext(World(ord), fsys, ctx, name, << >>, MaxStack))

\* the services a call on one of S can come to: the entries of a MapFS, the
\* members of a UnionFS, the sources bound in a namespace
Below(s) ==
  CASE s.k = "map" -> {maps[s.id][k] : k \in DOMAIN maps[s.id]}
    [] s.k = "union" -> Range(unions[s.id])
    [] s.k = "ns" -> UNION {{ref.fs : ref \in Range(bindings[s.id][k])} : k \in DOMAIN bindings[s.id]}
    [] OTHER -> {}

RECURSIVE Reach(_)
Reach(S) ==
  IF (UNION {Below(s) : s \in S}) \subseteq S THEN S
  ELSE Reach(S \cup UNION {Below(s) : s \in S})

\* a MapFS whose range order shows: one of its keys is a directory above another
Nested(s) == s.k = "map" /\ \E p, q \in DOMAIN maps[s.id] : HasDirPrefix(q, p)

\* the range orders that can tell in a call that starts at the services S
OrdersOf(S) == IF \E s \in Reach(S) : Nested(s) THEN Orders ELSE {"long"}

\* a namespace whose range order shows in a create: one of its destinations is
\* a directory above another
NestedNS(s) == s.k = "ns" /\ \E p, q \in DOMAIN bindings[s.id] : HasDirPrefix(q, p)

\* the range orders that can tell in a create that starts at the services S
CreateOrdersOf(S) ==
  IF \E s \in Reach(S) : Nested(s) \/ NestedNS(s) THEN Orders ELSE {"long"}

\* ------------------------------------------------- what the callers pass

\* the sources a caller of namespace n binds: a file below a MapFS, the root of
\* a leaf service, and a directory of the namespace itself
SrcFile == <<Map(1), <<"dom", "1", "data">>>>

SrcRoot == <<Leaf(2), Dot>>

SrcSelf(n) == <<NS(n), <<"web", "vm">>>>

Web == <<"web">>

Tty == <<"web", "vm", "1", "ttyS0">>

\* the Bind calls made on namespace n: (service, path, destination, mode)
BindCalls(n) ==
  { <<SrcFile[1], SrcFile[2], Tty, "after">>,
    <<SrcFile[1], SrcFile[2], Web, "after">>,
    <<SrcFile[1], SrcFile[2], Web, "before">>,
    <<SrcFile[1], SrcFile[2], Web, "replace">>,
    <<SrcFile[1], SrcFile[2], Web, "">>,
    <<SrcFile[1], SrcFile[2], Web, "sideways">>,
    <<SrcRoot[1], SrcRoot[2], Web, "after">>,
    <<SrcRoot[1], SrcRoot[2], Web, "before">>,
    <<SrcSelf(n)[1], SrcSelf(n)[2], Web, "after">>,
    <<Leaf(1), <<"x">>, Web, "after">>,
    <<Leaf(2), <<"..", "x">>, Web, "after">> }

\* the Unbind calls made on namespace n: (service, path, destination)
UnbindCalls(n) ==
  { <<SrcFile[1], SrcFile[2], Tty>>,
    <<SrcFile[1], SrcFile[2], Web>>,
    <<SrcRoot[1], SrcRoot[2], Web>>,
    <<SrcSelf(n)[1], SrcSelf(n)[2], Web>>,
    <<Map(2), <<"web", "dom", "1", "data">>, Web>>,
    <<Leaf(2), <<"..", "x">>, Web>> }

\* the sources bound and unbound again right away: (service, path, destination)
RoundTrips(n) ==
  { <<SrcFile[1], SrcFile[2], Tty>>,
    <<SrcFile[1], SrcFile[2], Web>>,
    <<SrcRoot[1], SrcRoot[2], Web>>,
    <<SrcSelf(n)[1], SrcSelf(n)[2], Web>> }

\* the names looked up in a namespace
Names == {Dot, Web, <<"web", "vm">>, Tty}

Next ==
  \/ \E n \in NsIds : \E c \in BindCalls(n) : \E ord \in OrdersOf({c[1], NS(n)}) :
        Bind(n, c[1], c[2], c[3], c[4], ord)
  \/ \E n \in NsIds : \E c \in UnbindCalls(n) : \E ord \in OrdersOf({c[1], NS(n)}) :
        Unbind(n, c[1], c[2], c[3], ord)
  \/ \E n \in NsIds : \E c \in RoundTrips(n) : \E ord \in OrdersOf({c[1], NS(n)}) :
        RoundTrip(n, c[1], c[2], c[3], ord)
  \/ \E n \in NsIds, c \in NsIds : Clone(n, c)
  \/ \E n \in live, name \in Names : \E ord \in OrdersOf({NS(n)}) :
        DoResolve(NS(n), ContextFor(n), name, ord)
  \/ \E n \in live, name \in Names : \E ord \in OrdersOf({NS(n)}) :
        DoOpen(NS(n), ContextFor(n), name, ord)

Spec == Init /\ [][Next]_vars

\* --------------------------------------- compositions that are only queried

\* the Bind calls that set namespace 1 up, one after the other from vfs.New
Scripts ==
  { << >>,
    << <<Map(1), <<"dom", "1", "data">>, <<"web", "vm", "1", "ttyS0">>, "after">> >>,
    << <<Leaf(2), Dot, <<"web">>, "after">> >>,
    << <<Leaf(2), Dot, <<"web">>, "after">>,
       <<Map(1), <<"dom", "1", "data">>, <<"web">>, "before">> >>,
    << <<Map(1), <<"dom", "1", "data">>, <<"web", "vm", "1", "ttyS0">>, "after">>,
       <<Leaf(2), Dot, <<"web">>, "after">> >>,
    << <<Map(1), <<"dom", "1", "data">>, <<"web", "vm", "1", "ttyS0">>, "after">>,
       <<NS(1), <<"web", "vm">>, <<"web">>, "after">> >>,
    << <<Leaf(2), Dot, <<"web">>, "after">>,
       <<Leaf(1), Dot, <<"web">>, "before">> >>,
    << <<Leaf(2), <<"x">>, <<"web">>, "after">>,
       <<Map(1), <<"dom", "1", "data">>, <<"web">>, "after">> >>,
    << <<Leaf(3), Dot, <<"web">>, "after">>,
       <<Leaf(2), Dot, <<"web", "vm">>, "after">> >>,
    << <<Map(5), Dot, <<"web">>, "after">>,
       <<Leaf(2), Dot, <<"web">>, "before">> >> }

RECURSIVE Setup(_, _, _)
\* the table of namespace 1 once the Bind calls of script, from the i-th on,
\* have run on table b
Setup(b, script, i) ==
  IF i > Len(script) \/ i > MaxScript THEN b
  ELSE Setup(BindIn([maps |-> ServiceMaps(EmptyMap) @@ StdMaps,
                     unions |-> ServiceUnions @@ StdUnions,
                     bindings |-> [n \in NsIds |-> IF n = 1 THEN b ELSE EmptyMap],
                     created |-> {}, resources |-> EmptyMap, ord |-> "long"],
                    1, script[i][1], script[i][2], script[i][3], script[i][4]).table,
             script, i + 1)

InitComp ==
  /\ maps = StdMaps
  /\ unions = StdUnions
  /\ \E script \in Scripts : bindings = [n \in NsIds |-> IF n = 1 THEN Setup(EmptyMap, script, 1) ELSE EmptyMap]
  /\ live = {1}
  /\ created = {}
  /\ nextID = 0
  /\ resources = EmptyMap
  /\ run = NoRun
  /\ out = Out("new", 1, NoFS, Empty, Empty, "", Background, Res("ok", NoFS, Empty, 0, FALSE, << >>))

\* the lookups made in the compositions: (service, context, name)
Queries ==
  {<<NS(1), ContextFor(1), name>> :
     name \in {Dot, <<"web">>, <<"web", "vm">>, <<"web", "vm", "1", "ttyS0">>, <<"x">>}}
  \cup {<<Map(1), Background, name>> :
          name \in {Dot, <<"dom">>, <<"dom", "1", "data">>, <<"x">>}}
  \cup {<<Map(2), Background, name>> :
          name \in {Dot, <<"web">>, <<"web", "dom">>, <<"web", "dom", "1", "data">>, <<"dom", "1", "data">>}}
  \cup {<<Map(3), Background, name>> :
          name \in {<<"a">>, <<"a", "web", "dom">>, <<"a", "web", "dom", "1", "data">>}}
  \cup {<<Map(4), Background, name>> :
          name \in {Dot, <<"dom", "1">>, <<"dom", "1", "data">>, <<"dom", "x">>}}
  \cup {<<Union(1), Ctx(ro, 0), name>> :
          ro \in BOOLEAN, name \in {Dot, <<"dom">>, <<"dom", "1", "data">>, <<"x">>}}
  \cup {<<s, Background, <<"x">>>> : s \in {Leaf(2), Union(2), Wrap(0), Chain(98), Chain(99)}}
  \cup {<<NS(1), ContextFor(1), name>> :
          name \in {<<"web", "1", "data">>, <<"web", "y">>, <<"web", "vm", "y">>, <<"..", "x">>,
                    <<"web", "p">>, <<"web", "x">>}}
  \cup {<<Map(4), Background, name>> : name \in {<<"dom", "1", "x">>, <<"x">>, <<"..", "x">>}}
  \cup {<<Union(i), Ctx(ro, 0), name>> :
          i \in {3, 4}, ro \in BOOLEAN, name \in {Dot, <<"x">>, <<"y">>, <<"..", "x">>}}
  \cup {<<Union(5), Ctx(ro, 0), name>> : ro \in BOOLEAN, name \in {<<"x">>, <<"1", "data">>}}
  \cup {<<NS(1), Cancelled(ContextFor(1)), <<"web", "vm", "1", "ttyS0">>>>,
        <<Map(2), Cancelled(Background), <<"web", "dom", "1", "data">>>>,
        <<Union(1), Cancelled(Background), <<"x">>>>}

\* the lookups made with fs.ResolveTo: (service, context, name)
ToQueries ==
  {<<NS(1), ContextFor(1), name>> : name \in {<<"web">>, <<"web", "vm", "1", "ttyS0">>, <<"x">>}}
  \cup {<<Map(2), Background, name>> : name \in {<<"web">>, <<"web", "dom", "1", "data">>}}
  \cup {<<Union(1), Ctx(ro, 0), <<"x">>>> : ro \in BOOLEAN}
  \cup {<<s, Background, <<"x">>>> : s \in {Leaf(2), Union(2), Wrap(0), Chain(98)}}

\* the extension interfaces asked for
Caps == {"stat", "create"}

\* the task a caller of create runs as
Task == 5

\* the creates made in the compositions: (service, context, name)
Creates ==
  {<<NS(1), Ctx(FALSE, Task), name>> :
     name \in {<<"web">>, <<"web", "y">>, <<"web", "vm", "y">>, <<"y">>, <<"..", "x">>}}
  \cup {<<Map(2), Ctx(FALSE, Task), name>> : name \in {<<"web", "dom", "1", "data">>, <<"web">>}}
  \cup {<<Map(4), Ctx(FALSE, Task), name>> :
          name \in {<<"dom", "1", "y">>, <<"dom", "1">>, <<"y">>, <<"..", "x">>}}
  \cup {<<Union(i), Ctx(ro, Task), name>> :
          i \in {1, 3, 4}, ro \in BOOLEAN, name \in {<<"x">>, <<"y">>, <<"..", "x">>}}

NextComp ==
  \/ \E q \in Queries : \E ord \in OrdersOf({q[1]}) : DoResolve(q[1], q[2], q[3], ord)
  \/ \E q \in Queries : \E ord \in OrdersOf({q[1]}) : DoOpen(q[1], q[2], q[3], ord)
  \/ \E q \in Queries : \E ord \in OrdersOf({q[1]}) : DoResolveFS(q[1], q[2], q[3], ord)
  \/ \E q \in ToQueries : \E cap \in Caps : \E ord \in OrdersOf({q[1]}) :
        DoResolveTo(q[1], q[2], q[3], cap, ord)
  \/ \E q \in Creates : \E ord \in CreateOrdersOf({q[1]}) : DoCreate(q[1], q[2], q[3], ord)

SpecComp == InitComp /\ [][NextComp]_vars


\* ------------------------------------------------- the task service machine

\* one decimal digit as a string
Digit(n) == CASE n = 0 -> "0" [] n = 1 -> "1" [] n = 2 -> "2" [] n = 3 -> "3" [] n = 4 -> "4"
              [] n = 5 -> "5" [] n = 6 -> "6" [] n = 7 -> "7" [] n = 8 -> "8" [] OTHER -> "9"

RECURSIVE Itoa(_)
\* strconv.Itoa of a number that is not negative
Itoa(n) == IF n < 10 THEN Digit(n) ELSE Itoa(n \div 10) \o Digit(n % 10)

\* the cell of the heap of binding tables where Alloc puts the table of the namespace
\* it makes for task id: the cells after those of the callers' namespaces
TaskNS(id) == Cardinality(NsIds) + id

\* the *Resource with this id, as a caller of Alloc holds it
ByID(res, id) == res[CHOOSE k \in DOMAIN res : res[k].id = id]

\* context.WithValue(context.Background(), TaskContextKey, p) for the task with this id
TaskContext(id) == Ctx(FALSE, id)

\* vfs.New(ctx): a namespace with a new, empty table at cell at
NewNS(heap, ctx, at) ==
  [ns |-> [at |-> at, ctx |-> ctx], heap |-> [heap EXCEPT ![at] = EmptyMap]]

\* NS.Clone that hands out the table it was to copy
CloneNSShared(heap, ns, ctx, at) ==
  [ns |-> [at |-> ns.at, ctx |-> ctx], heap |-> heap]

\* NS.Clone(ctx) of the namespace ns: a new table at cell at with a copy of each
\* list of ns, and the context given
CloneNS(heap, ns, ctx, at) ==
  [ns |-> [at |-> at, ctx |-> ctx],
   heap |-> [heap EXCEPT ![at] = [k \in DOMAIN heap[ns.at] |-> heap[ns.at][k]]]]

\* the namespace Alloc gives the task id: a clone of the parent's under the context
\* of the new task, or a new one if there is no parent (0)
AllocNS(res, heap, id, parent) ==
  IF parent # 0 THEN CloneNS(heap, ByID(res, parent).ns, TaskContext(id), TaskNS(id))
  ELSE NewNS(heap, TaskContext(id), TaskNS(id))

\* the task Alloc makes: its id, its kind, the task it was forked from (0: none)
\* and its namespace
NewResource(id, kind, parent, ns) == [id |-> id, typ |-> kind, parent |-> parent, ns |-> ns]

\* Alloc that registers the task under the value the counter had before
AllocUnderOldKey(res, heap, next, kind, parent) ==
  IF kind \notin types
  THEN [err |-> "notexist", id |-> 0, nextID |-> next, resources |-> res, heap |-> heap]
  ELSE [err |-> "ok", id |-> next + 1, nextID |-> next + 1,
        resources |-> Put(res, Itoa(next),
                          NewResource(next + 1, kind, parent, AllocNS(res, heap, next + 1, parent).ns)),
        heap |-> AllocNS(res, heap, next + 1, parent).heap]

\* Service.Alloc on the registry res, the heap of binding tables and the counter
\* next: what it returns and what it leaves in the service
Alloc(res, heap, next, kind, parent) ==
  IF kind \notin types
  THEN [err |-> "notexist", id |-> 0, nextID |-> next, resources |-> res, heap |-> heap]
  ELSE [err |-> "ok", id |-> next + 1, nextID |-> next + 1,
        resources |-> Put(res, Itoa(next + 1),
                          NewResource(next + 1, kind, parent, AllocNS(res, heap, next + 1, parent).ns)),
        heap |-> AllocNS(res, heap, next + 1, parent).heap]

\* the record of an Alloc that came to a, the service and the heap as the Alloc
\* left them
Allocated(op, ctx, kind, a) ==
  /\ a.nextID <= MaxTasks
  /\ nextID' = a.nextID
  /\ resources' = a.resources
  /\ bindings' = a.heap
  /\ live' = live \cup {a.resources[k].ns.at : k \in DOMAIN a.resources}
  /\ out' = [Out(op, 0, TaskService, <<"new", kind>>, Empty, "", ctx,
                 Res(a.err, NoFS, Empty, 0, FALSE, << >>))
             EXCEPT !.id = a.id, !.was = nextID, !.prev = resources]
  /\ UNCHANGED <<run, maps, unions, created>>

\* a caller runs d.Alloc(kind, parent)
DoAlloc(kind, parent) ==
  /\ parent = 0 \/ Itoa(parent) \in DOMAIN resources
  /\ Allocated("alloc", Ctx(FALSE, parent), kind, Alloc(resources, bindings, nextID, kind, parent))

\* the read of a file that an open of new/<kind> returned: the ReadFunc of the file
\* the "new" entry gave allocates a task of the kind the file is named after, forked
\* from the task of the context of the open
ReadOpened(ctx, kind, file) ==
  IF file.err = "ok" /\ file.fs = NewFunc /\ Len(file.name) = 1
  THEN Allocated("read", ctx, kind, Alloc(resources, bindings, nextID, file.name[1], FromContext(ctx)))
  ELSE Answer("open", TaskService, ctx, <<"new", kind>>, Opened(file))

\* a caller opens new/<kind> on the task service and reads the file
ReadNew(ctx, kind) ==
  ReadOpened(ctx, kind, OpenContext(World("long"), TaskService, ctx, <<"new", kind>>, MaxStack))

\* the contexts the callers of the task service pass: read-only or not, carrying no
\* task or a task of the registry
TaskCtxs == {Ctx(ro, t) : ro \in BOOLEAN, t \in {0} \cup {resources[k].id : k \in DOMAIN resources}}

\* the kinds the callers ask for: the registered ones and one that is not
Kinds == types \cup {"zz"}

\* the names looked up on the task service, "." apart
TaskNames ==
  {<<"new">>, <<"new", "ns">>, <<"self">>, <<"1", "cmd">>, <<"2", "cmd">>, <<"2", "zz">>,
   <<"3", "cmd">>}

\* the names created on the task service
TaskCreates == {<<"1", "cmd">>, <<"2", "y">>, <<"self">>, <<"3", "cmd">>, Dot, <<"new">>}

\* the range orders that can tell on the task service: with two tasks registered the
\* range over the registry can go either way
TaskOrders == IF Cardinality(DOMAIN resources) > 1 THEN Orders ELSE {"long"}

\* the namespace of the callers: the task service is bound at "task"
TaskScript == << <<TaskService, Dot, <<"task">>, "after">> >>

\* the cells of the namespaces of the tasks
TaskCells == {TaskNS(t) : t \in 1..MaxTasks}

\* task.New and a namespace that binds the service at "task"
InitTask ==
  /\ maps = StdMaps
  /\ unions = StdUnions
  /\ bindings = [n \in NsIds \cup TaskCells |-> IF n = 1 THEN Setup(EmptyMap, TaskScript, 1) ELSE EmptyMap]
  /\ live = {1}
  /\ created = {}
  /\ nextID = 0
  /\ resources = EmptyMap
  /\ run = NoRun
  /\ out = Out("new", 1, NoFS, Empty, Empty, "", Background, Res("ok", NoFS, Empty, 0, FALSE, << >>))

NextTask ==
  \/ \E kind \in Kinds : \E parent \in 0..MaxTasks : DoAlloc(kind, parent)
  \/ \E ctx \in TaskCtxs : \E kind \in Kinds : ReadNew(ctx, kind)
  \/ \E ctx \in TaskCtxs : \E name \in TaskNames \cup {Dot} :
       DoResolve(TaskService, ctx, name, "long")
  \/ \E ctx \in TaskCtxs : \E name \in TaskNames : DoOpen(TaskService, ctx, name, "long")
  \/ \E ctx \in TaskCtxs : \E ord \in TaskOrders : DoOpen(TaskService, ctx, Dot, ord)
  \/ \E ctx \in TaskCtxs : \E name \in TaskCreates : DoCreate(TaskService, ctx, name, "long")
  \/ \E name \in {<<"task">>, <<"task", "1", "cmd">>} : DoOpen(NS(1), Ctx(TRUE, 0), name, "long")
  \/ \E ctx \in TaskCtxs : \E name \in {<<"task", "1", "cmd">>, <<"task", "2", "y">>, <<"task">>} :
       DoCreate(NS(1), ctx, name, "long")

SpecTask == InitTask /\ [][NextTask]_vars

\* ------------------------------------- the namespaces of the tasks, the nodejs task

\* the tasks of the registry, by id
Registered == {resources[k].id : k \in DOMAIN resources}

\* NS.Bind on the namespace ns of a task, in the world w
TaskBindIn(w, ns, src, srcPath, dstPath, mode) ==
  IF ~ValidPath(srcPath) \/ ~ValidPath(dstPath) THEN Failed(w.bindings[ns.at], "notexist")
  ELSE BindResolved(w, ns.at, src, srcPath, dstPath, mode,
                    Resolve(w, src, ns.ctx, srcPath, MaxStack))

\* NS.Unbind on the namespace ns of a task, in the world w
TaskUnbindIn(w, ns, src, srcPath, dstPath) ==
  IF ~ValidPath(srcPath) \/ ~ValidPath(dstPath) THEN Failed(w.bindings[ns.at], "notexist")
  ELSE UnbindResolved(w.bindings[ns.at], dstPath, Resolve(w, src, ns.ctx, srcPath, MaxStack))

\* a mutation of the namespace ns of task t has come to res
TaskCommit(op, t, ns, src, srcPath, dstPath, mode, res) ==
  /\ TotalSize - Size(bindings[ns.at]) + Size(res.table) <= MaxTotal
  /\ bindings' = [bindings EXCEPT ![ns.at] = res.table]
  /\ out' = [Out(op, ns.at, src, srcPath, dstPath, mode, ns.ctx, res)
             EXCEPT !.prev = bindings[ns.at], !.id = t]
  /\ UNCHANGED <<run, maps, unions, live, created, nextID, resources>>

\* task t binds in its namespace
TaskBind(t, src, srcPath, dstPath, mode) ==
  /\ t \in Registered
  /\ TaskCommit("bind", t, ByID(resources, t).ns, src, srcPath, dstPath, mode,
                TaskBindIn(World("long"), ByID(resources, t).ns, src, srcPath, dstPath, mode))

\* task t unbinds in its namespace
TaskUnbind(t, src, srcPath, dstPath) ==
  /\ t \in Registered
  /\ TaskCommit("unbind", t, ByID(resources, t).ns, src, srcPath, dstPath, "",
                TaskUnbindIn(World("long"), ByID(resources, t).ns, src, srcPath, dstPath))

\* the web/node service: bootstrap.js and ctl
NodeService == Leaf(6)

\* where the bootstrap is bound
Bootstrap == <<"web", "node", "bootstrap.js">>

\* the name NodeTask.Start opens, "/web/node/bootstrap.js", element by element
BootstrapName == <<"">> \o Bootstrap

\* what the tasks bind and where
ForkBinds ==
  {<<NodeService, Dot, <<"web", "node">> >>, <<Leaf(2), <<"x">>, Bootstrap>>,
   <<Leaf(1), Dot, Bootstrap>>, <<Leaf(2), Dot, <<"web">> >>}

\* task.New, no task allocated
InitFork ==
  /\ maps = StdMaps
  /\ unions = StdUnions
  /\ bindings = [n \in NsIds \cup TaskCells |-> EmptyMap]
  /\ live = {}
  /\ created = {}
  /\ nextID = 0
  /\ resources = EmptyMap
  /\ run = NoRun
  /\ out = Out("new", 0, NoFS, Empty, Empty, "", Background, Res("ok", NoFS, Empty, 0, FALSE, << >>))

NextFork ==
  \/ \E kind \in Kinds : \E parent \in {0} \cup Registered : DoAlloc(kind, parent)
  \/ \E ctx \in TaskCtxs : \E kind \in Kinds : ReadNew(ctx, kind)
  \/ \E t \in 1..MaxTasks : \E b \in ForkBinds : \E mode \in {"after", "replace"} :
       TaskBind(t, b[1], b[2], b[3], mode)
  \/ \E t \in 1..MaxTasks : \E b \in ForkBinds : TaskUnbind(t, b[1], b[2], b[3])

\* the tasks allocated, forked and binding in their namespaces
SpecFork == InitFork /\ [][NextFork]_vars

\* the scripts written to cmd: none, one that returns, one that calls process.exit(3)
Cmds == {"", "log", "exit3"}

\* the code the script passes to process.exit, "" if it never calls it
ExitCall(script) == IF script = "exit3" THEN "3" ELSE ""

\* a task that was not started: cmd and exit are empty
Idle == [cmd |-> "", exit |-> "", pc |-> "idle", err |-> "ok"]

\* NodeTask.Start after the open of the bootstrap returned file: the error of the
\* open or of io.ReadAll, or the two evals and the exit the script left or "0"
NodeLoaded(script, file) ==
  IF file.err # "ok" THEN [err |-> "open", exit |-> ""]
  ELSE IF file.dir THEN [err |-> "read", exit |-> ""]
  ELSE IF ExitCall(script) = "" THEN [err |-> "ok", exit |-> "0"]
  ELSE [err |-> "ok", exit |-> ExitCall(script)]

\* NodeTask.Start of the task res with cmd script, in the world w: what Start
\* returns and what it leaves in exit
NodeTaskStart(w, res, script) ==
  IF script = "" THEN [err |-> "nocmd", exit |-> ""]
  ELSE NodeLoaded(script, OpenContext(w, NS(res.ns.at), Background, BootstrapName, MaxStack))

\* the record of a step of task t
NodeStep(op, t, err) ==
  /\ out' = [Out(op, ByID(resources, t).ns.at, Resource(t), Empty, Empty, "", Background,
                 Res(err, NoFS, Empty, 0, FALSE, << >>)) EXCEPT !.id = t]
  /\ UNCHANGED <<maps, unions, bindings, live, created, nextID, resources>>

\* a write to the cmd file of task t
WriteCmd(t, script) ==
  /\ t \in Registered
  /\ run[t].pc = "idle"
  /\ run' = [run EXCEPT ![t].cmd = script]
  /\ NodeStep("cmd", t, "ok")

\* "start" is written to the ctl file of a nodejs task: the starter spawns the
\* goroutine that runs NodeTask.Start and returns
StartTask(t) ==
  /\ t \in Registered
  /\ ByID(resources, t).typ = "nodejs"
  /\ run[t].pc = "idle"
  /\ run' = [run EXCEPT ![t].pc = "spawned"]
  /\ NodeStep("start", t, "ok")

\* the goroutine of task t runs NodeTask.Start, which came to r
Started(t, r) ==
  /\ run' = [run EXCEPT ![t].pc = "returned", ![t].err = r.err,
                        ![t].exit = IF r.exit # "" THEN r.exit ELSE @]
  /\ NodeStep("run", t, r.err)

\* the goroutine of task t runs NodeTask.Start to its return
RunStart(t) ==
  /\ t \in Registered
  /\ run[t].pc = "spawned"
  /\ Started(t, NodeTaskStart(World("long"), ByID(resources, t), run[t].cmd))

\* the goroutine of task t after Start returned: an error sets exit to "1"
RunExit(t) ==
  /\ t \in Registered
  /\ run[t].pc = "returned"
  /\ run' = [run EXCEPT ![t].pc = "done", ![t].exit = IF run[t].err # "ok" THEN "1" ELSE @]
  /\ NodeStep("exit", t, run[t].err)

\* what the nodejs tasks bind and where
NodeBinds == {<<NodeService, Dot, <<"web", "node">> >>, <<Leaf(2), <<"x">>, Bootstrap>>}

InitNode ==
  /\ maps = StdMaps
  /\ unions = StdUnions
  /\ bindings = [n \in NsIds \cup TaskCells |-> EmptyMap]
  /\ live = {}
  /\ created = {}
  /\ nextID = 0
  /\ resources = EmptyMap
  /\ run = [t \in 1..MaxTasks |-> Idle]
  /\ out = Out("new", 0, NoFS, Empty, Empty, "", Background, Res("ok", NoFS, Empty, 0, FALSE, << >>))

NextNode ==
  \/ \E parent \in {0} \cup Registered : DoAlloc("nodejs", parent)
  \/ \E t \in 1..MaxTasks : \E b \in NodeBinds : TaskBind(t, b[1], b[2], b[3], "after")
  \/ \E t \in 1..MaxTasks : \E script \in Cmds : WriteCmd(t, script)
  \/ \E t \in 1..MaxTasks : StartTask(t)
  \/ \E t \in 1..MaxTasks : RunStart(t)
  \/ \E t \in 1..MaxTasks : RunExit(t)

\* the nodejs tasks with the Go scheduler: a goroutine that can take a step takes it
SpecNode == InitNode /\ [][NextNode]_vars /\ \A t \in 1..MaxTasks : WF_vars(RunStart(t) \/ RunExit(t))
\* ------------------------------------------- goroutines on one namespace
\*
\* NS has no lock (vfs.go:23-29): Bind, Unbind and OpenContext read and write
\* ns.bindings as they go. Here one goroutine opens a name of namespace 1 while
\* two others bind or unbind; each step is one run of the code between two
\* accesses of the table that another goroutine can come between.

\* the table of namespace 1 as the goroutines find it
Shared == bindings[1]

\* the goroutines that are between two accesses of the table
Inside(t) ==
  {u \in Writers \ {t} : run.call[u].pc \in {"loaded", "stored"}}
  \cup (IF t # 0 /\ run.open.pc \in {"direct", "sub"} THEN {0} ELSE {})

\* the Go runtime found a map write while another goroutine was in the map: it
\* throws "concurrent map writes" or "concurrent map read and map write" and
\* the program is gone
Thrown(t) ==
  /\ Inside(t) # {}
  /\ run' = [run EXCEPT !.fatal = TRUE]
  /\ UNCHANGED <<maps, unions, bindings, live, created, nextID, resources, out>>

\* the open has returned f
OpenReturned(name, ctx, start, f) ==
  /\ run' = [run EXCEPT !.open = [pc |-> "done", name |-> name, ctx |-> ctx,
                                  p |-> Returned(f), start |-> start]]
  /\ out' = [Out("open", 1, NS(1), name, Empty, "", ctx, Opened(f)) EXCEPT !.prev = start]
  /\ UNCHANGED <<maps, unions, bindings, live, created, nextID, resources>>

\* the open goes on with what its loops have collected so far
OpenGoesOn(pc, p) ==
  /\ run' = [run EXCEPT !.open.pc = pc, !.open.p = p]
  /\ UNCHANGED <<maps, unions, bindings, live, created, nextID, resources, out>>

\* NS.OpenContext up to the end of the direct-binding loop (vfs.go:235-274)
OpenDirect(name, ctx, p1) ==
  /\ ~run.fatal
  /\ run.open.pc = "idle"
  /\ IF p1.done THEN OpenReturned(name, ctx, Shared, p1.res)
     ELSE /\ run' = [run EXCEPT !.open = [pc |-> "direct", name |-> name, ctx |-> ctx,
                                          p |-> p1, start |-> Shared]]
          /\ UNCHANGED <<maps, unions, bindings, live, created, nextID, resources, out>>

\* NS.OpenContext, the subpath loop (vfs.go:276-313)
OpenSub(p2) ==
  /\ ~run.fatal
  /\ run.open.pc = "direct"
  /\ IF p2.done THEN OpenReturned(run.open.name, run.open.ctx, run.open.start, p2.res)
     ELSE OpenGoesOn("sub", p2)

\* NS.OpenContext, the synthesized entries and the return (vfs.go:315-367)
OpenSynth ==
  /\ ~run.fatal
  /\ run.open.pc = "sub"
  /\ OpenReturned(run.open.name, run.open.ctx, run.open.start,
                  NSOpenSub(World("long"), NS(1), run.open.ctx, run.open.name, MaxStack, run.open.p))

\* a goroutine opens name on namespace 1
StartOpen(name, ctx) ==
  OpenDirect(name, ctx, NSScanDirect(World("long"), NS(1), ctx, name, MaxStack))

StepOpen ==
  \/ OpenSub(NSScanSub(World("long"), NS(1), run.open.ctx, run.open.name, MaxStack, run.open.p))
  \/ OpenSynth

\* goroutine t has evaluated the right-hand side of the assignment to
\* ns.bindings[dstPath] (vfs.go:118, 161-165): res is what the call comes to on
\* the table as it is read now
Loaded(t, op, src, dst, mode, res) ==
  /\ ~run.fatal
  /\ run.call[t].pc = "idle"
  /\ run' = [run EXCEPT !.call[t] =
               [pc |-> IF res.err = "ok" THEN "loaded" ELSE "done", op |-> op, src |-> src,
                dst |-> dst, mode |-> mode, err |-> res.err, list |-> Get(res.table, dst)]]
  /\ UNCHANGED <<maps, unions, bindings, live, created, nextID, resources, out>>

\* goroutine t calls ns.Bind(src, ".", dst, mode)
StartBind(t, src, dst, mode) ==
  Loaded(t, "bind", src, dst, mode, BindIn(World("long"), 1, src, Dot, dst, mode))

\* NS.Unbind up to the assignment (vfs.go:109-120): the list slices.DeleteFunc
\* leaves is put under dst, empty or not
UnbindAssigned(b, dst, r) ==
  IF r.err # "ok" THEN Failed(b, r.err)
  ELSE Done("ok", Put(b, dst, Deleted(Get(b, dst), r.fs, r.name)), r, FALSE)

\* goroutine t calls ns.Unbind(src, ".", dst)
StartUnbind(t, src, dst) ==
  Loaded(t, "unbind", src, dst, "",
         UnbindAssigned(Shared, dst, Resolve(World("long"), src, ContextFor(1), Dot, MaxStack)))

\* the assignment to ns.bindings[dstPath]: the list goes into the table as it
\* is now; Bind returns after it, Unbind goes on to its test of the length
Store(t) ==
  /\ ~run.fatal
  /\ run.call[t].pc = "loaded"
  /\ \/ /\ bindings' = [bindings EXCEPT ![1] = Put(Shared, run.call[t].dst, run.call[t].list)]
        /\ run' = [run EXCEPT !.call[t].pc = IF run.call[t].op = "bind" THEN "done" ELSE "stored"]
        /\ UNCHANGED <<maps, unions, live, created, nextID, resources, out>>
     \/ Thrown(t)

\* NS.Unbind, the delete of a destination whose list is empty (vfs.go:121-123)
Prune(t) ==
  /\ ~run.fatal
  /\ run.call[t].pc = "stored"
  /\ \/ /\ bindings' = [bindings EXCEPT ![1] =
                          IF Len(Get(Shared, run.call[t].dst)) = 0
                          THEN Del(Shared, run.call[t].dst) ELSE Shared]
        /\ run' = [run EXCEPT !.call[t].pc = "done"]
        /\ UNCHANGED <<maps, unions, live, created, nextID, resources, out>>
     \/ /\ Len(Get(Shared, run.call[t].dst)) = 0
        /\ Thrown(t)

\* the tables the goroutines start on
SharedScripts ==
  { << >>,
    << <<Leaf(2), Dot, <<"a">>, "after">> >>,
    << <<Leaf(1), Dot, Dot, "after">>, <<Leaf(2), Dot, <<"a">>, "after">> >> }

SharedNames == {Dot, <<"a">>}

SharedBinds ==
  {<<Leaf(1), <<"a">>, "after">>, <<Leaf(2), <<"a">>, "before">>, <<Leaf(2), <<"b">>, "after">>,
   <<Leaf(1), Dot, "replace">>}

SharedUnbinds == {<<Leaf(2), <<"a">>>>, <<Leaf(1), Dot>>}

InitShared ==
  /\ maps = StdMaps
  /\ unions = StdUnions
  /\ \E script \in SharedScripts :
        /\ bindings = [n \in NsIds |-> IF n = 1 THEN Setup(EmptyMap, script, 1) ELSE EmptyMap]
        /\ run = [NoRun EXCEPT !.init = Setup(EmptyMap, script, 1)]
  /\ live = {1}
  /\ created = {}
  /\ nextID = 0
  /\ resources = EmptyMap
  /\ out = Out("new", 1, NoFS, Empty, Empty, "", Background, Res("ok", NoFS, Empty, 0, FALSE, << >>))

NextShared ==
  \/ \E name \in SharedNames : StartOpen(name, ContextFor(1))
  \/ StepOpen
  \/ \E t \in Writers : \E c \in SharedBinds : StartBind(t, c[1], c[2], c[3])
  \/ \E t \in Writers : \E c \in SharedUnbinds : StartUnbind(t, c[1], c[2])
  \/ \E t \in Writers : Store(t)
  \/ \E t \in Writers : Prune(t)

SpecShared == InitShared /\ [][NextShared]_vars
\* ------------------------------------ namespaces that are sources of namespaces
\*
\* Two namespaces: each binds leaves, a destination of the other namespace and
\* its own root, unbinds again, and is asked for the info and the file of its
\* destinations.

Other(n) == 3 - n

Away == <<"a">>

\* the Bind calls made on namespace n: (service, path, destination, mode)
StatBinds(n) ==
  { <<Leaf(2), Dot, Web, "after">>,
    <<Leaf(1), Dot, <<"web", "vm">>, "after">>,
    <<NS(Other(n)), Web, Away, "after">>,
    <<NS(n), Dot, Away, "after">>,
    <<NS(n), Dot, Dot, "after">> }

\* the Unbind calls made on namespace n: (service, path, destination)
StatUnbinds(n) ==
  { <<Leaf(2), Dot, Web>>,
    <<Leaf(1), Dot, <<"web", "vm">>>>,
    <<NS(n), Dot, Away>>,
    <<NS(n), Dot, Dot>> }

StatNames == {Dot, Web, Away, <<"a", "a">>}

\* vfs.New twice
InitStat ==
  /\ maps = StdMaps
  /\ unions = StdUnions
  /\ bindings = [n \in NsIds |-> EmptyMap]
  /\ live = NsIds
  /\ created = {}
  /\ nextID = 0
  /\ resources = EmptyMap
  /\ run = NoRun
  /\ out = Out("new", 1, NoFS, Empty, Empty, "", Background, Res("ok", NoFS, Empty, 0, FALSE, << >>))

NextStat ==
  \/ \E n \in NsIds : \E c \in StatBinds(n) : Bind(n, c[1], c[2], c[3], c[4], "long")
  \/ \E n \in NsIds : \E c \in StatUnbinds(n) : Unbind(n, c[1], c[2], c[3], "long")
  \/ \E n \in NsIds, name \in StatNames : DoStat(NS(n), ContextFor(n), name, "long")
  \/ \E n \in NsIds, name \in StatNames : DoOpen(NS(n), ContextFor(n), name, "long")

SpecStat == InitStat /\ [][NextStat]_vars

\* ------------------------------------------------------------ the claims

\* the (fs, path) a resolve of name on service s comes to in the present state,
\* under range order ord
Hop(s, ctx, name, ord) == ResolveFS(World(ord), s, ctx, name, MaxStack)

\* C1: whenever fs.Resolve returns without error, the service it returns is not
\* a resolver, or resolving the returned name on it gives the same service and
\* the same name back; when it returns an error it returns no service
C1_ResolveEndsAtFixpoint ==
  out.op = "resolve" =>
    IF out.err = "ok"
    THEN \/ ~IsResolver(out.rfs)
         \/ \A ord \in Orders :
              /\ Hop(out.rfs, out.ctx, out.rname, ord).err = "ok"
              /\ Hop(out.rfs, out.ctx, out.rname, ord).fs = out.rfs
              /\ Hop(out.rfs, out.ctx, out.rname, ord).name = out.rname
    ELSE out.rfs = NoFS /\ out.rname = Empty

\* C1 happens: a resolve moved through a hop and ended on a resolver at its fixpoint
C1_Witness ==
  /\ out.op = "resolve"
  /\ out.err = "ok"
  /\ IsResolver(out.rfs)
  /\ out.rfs # out.fs
  /\ out.steps >= 2

\* C2: a resolver that answers with a fresh service every time makes fs.Resolve
\* fail with the depth error after exactly 100 steps; no resolve takes more than
\* 100 steps; a chain that ends at a leaf in fewer than 100 hops never fails
\* with the depth error
C2_DepthLimit ==
  out.op = "resolve" =>
    /\ out.steps <= 100
    /\ (out.fs.k = "wrap" => out.err = "depth" /\ out.steps = 100)
    /\ (out.err = "depth" => out.steps = 100)
    /\ (out.fs.k = "chain" /\ out.fs.id + 1 < 100 =>
          out.err = "ok" /\ out.rfs = Leaf(1) /\ out.steps = out.fs.id + 1)
    /\ (out.fs.k \in {"leaf", "map", "union"} => out.err # "depth")

\* C2 happens: the fresh-wrapper resolver was resolved and failed at the limit
C2_Witness ==
  /\ out.op = "resolve"
  /\ out.fs = Wrap(0)
  /\ out.err = "depth"
  /\ out.steps = 100

\* C3: a resolve of a valid path on a namespace whose bindings were installed
\* through Bind reaches a fixpoint and never returns the depth error
C3_NeverDepthExceeded ==
  (out.op = "resolve" /\ out.fs.k = "ns" /\ ValidPath(out.name)) => out.err # "depth"

\* C4: Resolve(MapFS{"web": MapFS{"dom": leaf}}, "web/dom/1/data") is
\* (leaf, "1/data"), and at every depth of nesting each MapFS takes exactly its
\* own key off the name
C4_TwoLevelDescent ==
  /\ (out.op = "resolve" /\ out.fs = Map(2) /\ out.name = <<"web", "dom", "1", "data">>)
       => (out.err = "ok" /\ out.rfs = Leaf(1) /\ out.rname = <<"1", "data">>)
  /\ \A nest \in {<<Map(1), <<"dom">>>>, <<Map(2), <<"web", "dom">>>>,
                  <<Map(3), <<"a", "web", "dom">>>>} :
       (/\ out.op = "resolve"
        /\ out.fs = nest[1]
        /\ Len(out.name) >= Len(nest[2])
        /\ SubSeq(out.name, 1, Len(nest[2])) = nest[2])
       => /\ out.err = "ok"
          /\ out.rfs = Leaf(1)
          /\ out.rname = IF Len(out.name) = Len(nest[2]) THEN Dot
                         ELSE SubSeq(out.name, Len(nest[2]) + 1, Len(out.name))

\* C4 happens: the two-level name was resolved on the outer MapFS
C4_Witness ==
  /\ out.op = "resolve"
  /\ out.fs = Map(2)
  /\ out.name = <<"web", "dom", "1", "data">>
  /\ out.rfs = Leaf(1)

\* the destinations of table b that are name or a directory above it
C5Above(b, name) ==
  {k \in DOMAIN b : Len(k) <= Len(name) /\ \A i \in 1..Len(k) : k[i] = name[i]}

\* the longest of a set of destinations that lie on one path
C5Longest(S) == CHOOSE k \in S : \A j \in S : Len(j) <= Len(k)

\* what C5 says NS.ResolveFS returns for name on namespace n with table b
C5Expected(b, n, name) ==
  IF name \in DOMAIN b /\ Len(b[name]) = 1 THEN <<b[name][1].fs, b[name][1].path>>
  ELSE IF name \in DOMAIN b THEN <<NS(n), name>>
  ELSE IF C5Above(b, name) # {}
  THEN <<b[C5Longest(C5Above(b, name))][1].fs,
         Join(b[C5Longest(C5Above(b, name))][1].path,
              SubSeq(name, Len(C5Longest(C5Above(b, name))) + 1, Len(name)))>>
  ELSE <<NS(n), name>>

C6Step ==
  (out'.op = "bind" /\ out'.err = "ok") =>
    /\ CASE out'.mode \in {"", "after"} ->
              Refs(Get(bindings'[out'.ns], out'.dst))
                = <<<<out'.rfs, out'.rname>>>> \o Refs(Get(bindings[out'.ns], out'.dst))
         [] out'.mode = "before" ->
              Refs(Get(bindings'[out'.ns], out'.dst))
                = Refs(Get(bindings[out'.ns], out'.dst)) \o <<<<out'.rfs, out'.rname>>>>
         [] out'.mode = "replace" ->
              Refs(Get(bindings'[out'.ns], out'.dst)) = <<<<out'.rfs, out'.rname>>>>
         [] OTHER -> FALSE
    /\ DOMAIN bindings'[out'.ns] = DOMAIN bindings[out'.ns] \cup {out'.dst}
    /\ \A k \in DOMAIN bindings[out'.ns] \ {out'.dst} : bindings'[out'.ns][k] = bindings[out'.ns][k]

C7Kept(list, rfs, rname) == SelectSeq(list, LAMBDA ref : <<ref.fs, ref.path>> # <<rfs, rname>>)

\* what a step that is a successful Unbind does to the table, as C7 says it
C7Step ==
  (out'.op = "unbind" /\ out'.err = "ok") =>
    /\ Get(bindings'[out'.ns], out'.dst)
         = C7Kept(Get(bindings[out'.ns], out'.dst), out'.rfs, out'.rname)
    /\ (out'.dst \in DOMAIN bindings'[out'.ns]
          <=> C7Kept(Get(bindings[out'.ns], out'.dst), out'.rfs, out'.rname) # << >>)
    /\ DOMAIN bindings'[out'.ns] \ {out'.dst} = DOMAIN bindings[out'.ns] \ {out'.dst}
    /\ \A k \in DOMAIN bindings[out'.ns] \ {out'.dst} : bindings'[out'.ns][k] = bindings[out'.ns][k]

\* no destination maps to an empty list
C7NoEmptyList == \A n \in NsIds : \A k \in DOMAIN bindings[n] : Len(bindings[n][k]) > 0

\* C7: Unbind removes from the destination every binding equal to what the
\* source resolves to and no other, keeps the rest in order, deletes the
\* destination when nothing is left and leaves the other destinations alone; no
\* destination ever maps to an empty list
C7_UnbindRemovesMatches == [](C7NoEmptyList) /\ [][C7Step]_vars

\* C7 happens: an Unbind removed bindings from a destination and left another there
C7_Witness ==
  /\ out.op = "unbind"
  /\ out.err = "ok"
  /\ out.dst \in DOMAIN bindings[out.ns]
  /\ Len(out.prev[out.dst]) = 2
  /\ Len(bindings[out.ns][out.dst]) = 1
  /\ <<bindings[out.ns][out.dst][1].fs, bindings[out.ns][out.dst][1].path>> # <<out.rfs, out.rname>>

C8Bound == Resolve(World("long"), out'.fs, ContextFor(out'.ns), out'.name, MaxStack)

C9Step ==
  /\ (out'.op = "clone" /\ live' # live) =>
       /\ bindings'[out'.rfs.id] = bindings[out'.ns]
       /\ bindings'[out'.ns] = bindings[out'.ns]
  /\ (out'.op \in {"bind", "unbind", "roundtrip"}) =>
       \A m \in NsIds \ {out'.ns} : bindings'[m] = bindings[m]

C10_BindStoresResolved ==
  /\ (out.op = "bind" /\ out.err = "ok" /\ out.fs = Map(1) /\ out.name = <<"dom", "1", "data">>) =>
       /\ \E i \in DOMAIN bindings[out.ns][out.dst] :
            /\ bindings[out.ns][out.dst][i].fs = Leaf(1)
            /\ bindings[out.ns][out.dst][i].path = <<"1", "data">>
       /\ \A i \in DOMAIN bindings[out.ns][out.dst] : bindings[out.ns][out.dst][i].fs # Map(1)
  /\ (/\ out.op = "open"
      /\ out.fs.k = "ns"
      /\ out.name \in DOMAIN bindings[out.fs.id]
      /\ Len(bindings[out.fs.id][out.name]) = 1
      /\ ~bindings[out.fs.id][out.name][1].dir) =>
       /\ out.err = "ok"
       /\ ~out.dir
       /\ out.rfs = bindings[out.fs.id][out.name][1].fs
       /\ out.rname = bindings[out.fs.id][out.name][1].path

\* C10 happens: the destination bound from the MapFS was opened and the leaf
\* opened "1/data"
C10_Witness ==
  /\ out.op = "open"
  /\ out.fs.k = "ns"
  /\ out.name = Tty
  /\ Tty \in DOMAIN bindings[out.fs.id]
  /\ Len(bindings[out.fs.id][Tty]) = 1
  /\ out.err = "ok"
  /\ out.rfs = Leaf(1)
  /\ out.rname = <<"1", "data">>

\* what fs.Resolve comes to for the service and name of the last operation
Located(ord) == Resolve(World(ord), out.fs, out.ctx, out.name, MaxStack)

\* C11: when open(C, p) returns a file held by a leaf service, it is the file
\* open(leaf, rel) returns, where (leaf, rel) = Resolve(C, p); this covers the
\* names under a namespace destination that holds a union and the names that
\* several MapFS keys are directories above
C11_OpenIsOpenOfResolved ==
  (out.op = "open" /\ out.err = "ok" /\ ~out.dir /\ out.rfs.k = "leaf") =>
    \A ord \in OrdersOf({out.fs}) :
      /\ Located(ord).err = "ok"
      /\ Located(ord).fs = out.rfs
      /\ Located(ord).name = out.rname

RECURSIVE C12Bound(_, _)
\* name is bound in service s: a leaf holds it; it is a key of a MapFS or a
\* destination of a namespace, lies under one or is a directory above one; a
\* member of a UnionFS binds it
C12Bound(s, name) ==
  CASE s.k = "leaf" -> name \in LeafHolds(World("long"), s.id) \cup LeafDirs(s.id)
    [] s.k = "map" ->
         \E k \in DOMAIN maps[s.id] : k = name \/ HasDirPrefix(name, k) \/ HasDirPrefix(k, name)
    [] s.k = "ns" ->
         \E k \in DOMAIN bindings[s.id] : k = name \/ HasDirPrefix(name, k) \/ HasDirPrefix(k, name)
    [] s.k = "union" -> \E i \in DOMAIN unions[s.id] : C12Bound(unions[s.id][i], name)
    [] OTHER -> TRUE

\* C12: the open of a valid path other than "." that is bound nowhere in a
\* namespace, MapFS or UnionFS fails with not-exist: nothing is synthesized
C12_UnboundIsNotExist ==
  (/\ out.op = "open"
   /\ out.fs.k \in {"ns", "map", "union"}
   /\ ValidPath(out.name)
   /\ out.name # Dot
   /\ ~C12Bound(out.fs, out.name))
  => out.err = "notexist"

\* C12 happens: a name bound nowhere was opened on a namespace that holds bindings
C12_Witness ==
  /\ out.op = "open"
  /\ out.fs = NS(1)
  /\ bindings[1] # EmptyMap
  /\ out.name = <<"x">>
  /\ ~C12Bound(out.fs, out.name)
  /\ out.err = "notexist"

\* C13: every entry point that accepts a path (bind, unbind, open and create of a
\* namespace; open and create of a MapFS; open and create of a UnionFS) rejects a path
\* that is not valid with the error "invalid", and a rejected bind or unbind leaves the
\* binding table as it was.
C13_InvalidPathIsInvalid ==
  /\ (out.op \in {"open", "create"} /\ out.fs.k \in {"ns", "map", "union"} /\ ~ValidPath(out.name))
       => out.err = "invalid"
  /\ (out.op \in {"bind", "unbind"} /\ (~ValidPath(out.name) \/ ~ValidPath(out.dst)))
       => (out.err = "invalid" /\ bindings[out.ns] = out.prev)

\* the members of the union a create was called on
C14Members == {unions[out.fs.id][i] : i \in 1..Len(unions[out.fs.id])}

\* create on a union under a context that is not read-only, some member a Creator:
\* the first Create call goes to a member that is a Creator, with the name given
C14Writable ==
  (out.op = "create" /\ out.fs.k = "union" /\ ValidPath(out.name) /\ ~IsReadOnly(out.ctx)
   /\ \E m \in C14Members : m.k = "leaf" /\ IsCreator(m))
    => \E j \in 1..Len(out.made) :
         out.made[j][1] \in C14Members /\ IsCreator(out.made[j][1]) /\ out.made[j][2] = out.name

\* C14: union write-preference on create. Under a context that is not read-only a
\* create on a union with a Creator member is dispatched to a Creator member; under a
\* read-only context a create on a union invokes the Create of no member.
C14_UnionWritePreference ==
  /\ C14Writable
  /\ (out.op = "create" /\ out.fs.k = "union" /\ IsReadOnly(out.ctx)) => out.made = << >>

\* C15: context flow through create. The context given to a create on a namespace, a
\* MapFS or a UnionFS is the context under which the Create or the Open of the service
\* it reaches runs.
C15_CreateKeepsContext ==
  (out.op = "create" /\ out.fs.k \in {"ns", "map", "union"} /\ out.via \in {"create", "open"})
    => out.at = out.ctx

\* C16: the listing that open(U, ".") returns when the union lists its members' roots
\* itself holds each name once, the first occurrence in member order.
C16_UnionListingKeepsFirst ==
  (out.op = "open" /\ out.fs.k = "union" /\ out.name = Dot /\ out.err = "ok" /\ out.dir
   /\ out.rfs = out.fs)
    => \A i, j \in 1..Len(out.entries) : out.entries[i] = out.entries[j] => i = j

\* what the first member of the union of the last call answers to an open of the name
C17First == LeafOpen(World("long"), unions[out.fs.id][1], out.name)

\* C17: in resolve, open and create of a UnionFS an error of a member other than
\* not-exist is returned at once: when the first of several members is a leaf that
\* answers the name with such an error, the call returns that error (a resolve of "."
\* under a read-only context consults no member).
C17_UnionSurfacesErrors ==
  (out.op \in {"resolve", "open", "create"} /\ out.fs.k = "union" /\ ValidPath(out.name)
   /\ Len(unions[out.fs.id]) > 1 /\ unions[out.fs.id][1].k = "leaf"
   /\ ~(out.op = "resolve" /\ out.name = Dot /\ IsReadOnly(out.ctx))
   /\ C17First.err \notin {"ok", "notexist"})
    => out.err = C17First.err

\* the keys of the MapFS of the last call that are directories above its name
C18Keys == {k \in DOMAIN maps[out.fs.id] : HasDirPrefix(out.name, k)}

\* the longest of them
C18Longest == CHOOSE k \in C18Keys : \A j \in C18Keys : Len(j) <= Len(k)

\* the last call returned what r is
OutIs(r) == out.err = r.err /\ out.rfs = r.fs /\ out.rname = r.name /\ out.dir = r.dir

\* C18: when several keys of a MapFS are directories above a name that is no key, open
\* and create return what the value of the longest such key returns for the rest of
\* the name, whatever the order the map is ranged in.
C18_MapLongestKey ==
  (out.op \in {"open", "create"} /\ out.fs.k = "map" /\ ValidPath(out.name)
   /\ out.name \notin DOMAIN maps[out.fs.id] /\ Cardinality(C18Keys) >= 2)
    => IF out.op = "open"
       THEN OutIs(OpenContext(World("long"), maps[out.fs.id][C18Longest], out.ctx,
                                TrimPrefix(out.name, C18Longest), MaxStack))
       ELSE OutIs(CreateOrOpen(World("long"), maps[out.fs.id][C18Longest], out.ctx,
                                 TrimPrefix(out.name, C18Longest), << >>, MaxStack))

\* the destinations of the namespace of the last call that hold a binding and are
\* directories above its name
C19Above == NSCreateAbove(bindings[out.fs.id], out.name)

\* the longest of them
C19Longest == CHOOSE k \in C19Above : \A j \in C19Above : Len(j) <= Len(k)

\* the first binding of the longest of them
C19First == bindings[out.fs.id][C19Longest][1]

\* C19: a create on a namespace for a name that is no destination: with destinations
\* above the name it returns what a create (an open, if the service is no Creator) of
\* join(b.path, rest) on the first binding b of the longest destination returns; with
\* none it fails with not-exist.
C19_NSCreateLongestDestination ==
  (out.op = "create" /\ out.fs.k = "ns" /\ ValidPath(out.name)
   /\ Len(Get(bindings[out.fs.id], out.name)) = 0)
    => IF C19Above = {} THEN out.err = "notexist"
       ELSE OutIs(CreateOrOpen(World("long"), C19First.fs, out.ctx,
                               Join(C19First.path, TrimPrefix(out.name, C19Longest)),
                               << >>, MaxStack))

\* the bindings of the destination the last call named
C20Refs == Get(bindings[out.fs.id], out.name)

\* the positions of those whose service is a Creator
C20Creators == {i \in 1..Len(C20Refs) : IsCreator(C20Refs[i].fs)}

\* the binding a create on the destination goes to: the first whose service is a
\* Creator, the first of all when none is
C20Target ==
  IF C20Creators = {} THEN C20Refs[1]
  ELSE C20Refs[CHOOSE i \in C20Creators : \A j \in C20Creators : i <= j]

\* C20: a create on a namespace for a name that is a destination returns what a create
\* of binding.path returns on the first binding of the destination whose service is a
\* Creator, and what an open of the first binding's path returns when none is.
C20_NSCreateFirstCreator ==
  (out.op = "create" /\ out.fs.k = "ns" /\ ValidPath(out.name) /\ Len(C20Refs) > 0)
    => OutIs(CreateOrOpen(World("long"), C20Target.fs, out.ctx, C20Target.path, << >>, MaxStack))

\* C21: every registry key is the decimal string of the id of the task it maps to; an
\* Alloc that succeeds returns an id greater than the id of every task allocated
\* before and registers the task under the decimal string of that id; an Alloc for a
\* kind that is not registered fails with not-exist and leaves the id counter and the
\* registry as they were.
C21_AllocIdsGrow ==
  /\ \A k \in DOMAIN resources : k = Itoa(resources[k].id)
  /\ (out.op \in {"alloc", "read"} /\ out.fs = TaskService /\ out.id # 0)
       => /\ \A k \in DOMAIN out.prev : out.prev[k].id < out.id
          /\ Itoa(out.id) \in DOMAIN resources
          /\ resources[Itoa(out.id)].id = out.id
          /\ DOMAIN resources = DOMAIN out.prev \cup {Itoa(out.id)}
  /\ (out.op \in {"alloc", "read"} /\ out.fs = TaskService /\ out.name[2] \notin types)
       => (out.err = "notexist" /\ nextID = out.was /\ resources = out.prev)

\* a second task has been allocated by a read of new/<kind>
C21_Witness ==
  /\ out.op = "read" /\ out.err = "ok" /\ out.id = 2
  /\ DOMAIN resources = {"1", "2"} /\ resources["2"].id = 2

\* the names a root listing of the task service is to hold under the context ctx
C22Listed(ctx) ==
  {<<"new">>} \cup {<<k>> : k \in DOMAIN resources}
  \cup (IF FromContext(ctx) # 0 THEN {<<"self">>} ELSE {})

\* C22: open(taskService, ".") lists "new", every registry key once, and "self" if and
\* only if the context carries a task; every id an Alloc has returned is listed.
C22_RootListsRegistry ==
  (out.op = "open" /\ out.fs = TaskService /\ out.name = Dot)
    => /\ out.err = "ok" /\ out.dir
       /\ Range(out.entries) = C22Listed(out.ctx)
       /\ Len(out.entries) = Cardinality(C22Listed(out.ctx))
       /\ \A n \in 1..nextID : <<Itoa(n)>> \in Range(out.entries)

\* the root was listed with two tasks registered, under a context that carries one
C22_Witness ==
  /\ out.op = "open" /\ out.fs = TaskService /\ out.name = Dot /\ nextID = 2
  /\ FromContext(out.ctx) = 2 /\ Len(out.entries) = 4

\* C23: with the task service bound at "task" and task N registered, a create of
\* task/N/<rest> on the namespace makes one Create call, on task N, with the name
\* <rest>.
C23_RedirectionReachesTask ==
  (out.op = "create" /\ out.fs = NS(1) /\ Len(out.name) > 2 /\ out.name[1] = "task"
   /\ out.name[2] \in DOMAIN resources)
    => /\ out.made = << <<Resource(resources[out.name[2]].id), SubSeq(out.name, 3, Len(out.name))>> >>
       /\ out.via = "create"
       /\ out.err = "ok"
       /\ out.rfs = Resource(resources[out.name[2]].id)
       /\ out.rname = SubSeq(out.name, 3, Len(out.name))

\* task/2/y was created through the namespace with two tasks registered
C23_Witness ==
  /\ out.op = "create" /\ out.fs = NS(1) /\ out.name = <<"task", "2", "y">>
  /\ out.made = << <<Resource(2), <<"y">>>> >> /\ <<ResBase + 2, <<"y">>>> \in created

\* the task a name of the form N/<rest> names
C24Task == Resource(resources[out.name[1]].id)

\* C24: for a registered task N and any context, a resolve of N/<rest> on the task
\* service returns (task N, <rest>) and an open of it returns what task N's open of
\* <rest> returns.
C24_TaskReadThrough ==
  (out.op \in {"resolve", "open"} /\ out.fs = TaskService /\ Len(out.name) > 1
   /\ out.name[1] \in DOMAIN resources)
    => IF out.op = "resolve"
       THEN out.err = "ok" /\ out.rfs = C24Task /\ out.rname = Tail(out.name)
       ELSE OutIs(LeafOpen(World("long"), C24Task, Tail(out.name)))

\* the "self" files there are
C25Selves == {FieldFile(t) : t \in 1..MaxTasks}

\* C25: under a context that carries a task, "self" on the task service resolves to and
\* opens as the file that holds the id of that task, and the root listing holds
\* "self"; under a context that carries none, no resolve or open of "self" comes to a
\* "self" file, the open fails with not-exist, and the root listing holds no "self".
C25_SelfIsTheCaller ==
  /\ (out.op \in {"resolve", "open"} /\ out.fs = TaskService /\ out.name = <<"self">>)
       => IF FromContext(out.ctx) # 0
          THEN /\ out.err = "ok" /\ out.rfs \in C25Selves
               /\ FieldData(out.rfs) = FromContext(out.ctx)
               /\ Itoa(FieldData(out.rfs)) \in DOMAIN resources
          ELSE out.rfs \notin C25Selves /\ (out.op = "open" => out.err = "notexist")
  /\ (out.op = "open" /\ out.fs = TaskService /\ out.name = Dot)
       => (<<"self">> \in Range(out.entries) <=> FromContext(out.ctx) # 0)

\* "self" was opened under a context that carries the second of two tasks
C25_Witness ==
  /\ out.op = "open" /\ out.fs = TaskService /\ out.name = <<"self">>
  /\ FromContext(out.ctx) = 2 /\ out.rfs = FieldFile(2) /\ nextID = 2

\* C26: a second open of "." on a composite, with nothing changed in between, lists
\* the same entries in the same order as the first, whatever order the runtime ranges
\* over its maps in.
C26_ReaddirDeterministic ==
  (out.op = "open" /\ out.fs.k \in {"ns", "map", "union", "task"} /\ out.name = Dot
   /\ out.err = "ok" /\ out.dir)
    => \A ord \in Orders :
         OpenContext(World(ord), out.fs, out.ctx, Dot, MaxStack).entries = out.entries

\* C27: fs.Resolve under a context that has been cancelled returns a cancellation
\* error and no resolved (fs, name).
C27_CancelledResolveFails ==
  (out.op = "resolve" /\ out.ctx.done) => out.err = "cancelled"

\* C28: an open of a name of a namespace that a bind or an unbind on the same
\* namespace comes between returns what an open of the table as it was when the
\* open started returns: the same result and the same listing.
C28_OpenListsSnapshot ==
  (out.op = "open" /\ run.open.pc = "done")
    => /\ OutIs(Opened(NSOpenContext(With(World("long"), 1, out.prev), NS(1), out.ctx,
                                     out.name, MaxStack)))
       /\ out.entries = NSOpenContext(With(World("long"), 1, out.prev), NS(1), out.ctx,
                                      out.name, MaxStack).entries

\* the table a call of a goroutine leaves when it runs alone on table
C29Alone(table, c) ==
  IF c.op = "bind"
  THEN BindIn(With(World("long"), 1, table), 1, c.src, Dot, c.dst, c.mode).table
  ELSE UnbindIn(With(World("long"), 1, table), 1, c.src, Dot, c.dst).table

\* C29: two binds, or a bind and an unbind, that goroutines issue on one
\* namespace at the same time both take effect in some serial order: once both
\* have returned, the table is what one call after the other leaves.
C29_NoLostUpdate ==
  (\A t \in Writers : run.call[t].pc = "done" /\ run.call[t].err = "ok")
    => bindings[1] \in {C29Alone(C29Alone(run.init, run.call[1]), run.call[2]),
                        C29Alone(C29Alone(run.init, run.call[2]), run.call[1])}

\* the keys of the MapFS m that are directories above name
C30Above(m, name) == {k \in DOMAIN m : HasDirPrefix(name, k)}

\* the longest of the keys of S
C30Longest(S) == CHOOSE k \in S : \A j \in S : Len(j) <= Len(k)

\* one hop of the MapFS m on name, as the claim has it
C30Hop(fsys, m, name) ==
  IF name \in DOMAIN m THEN ROk(m[name], Dot)
  ELSE IF C30Above(m, name) # {}
  THEN ROk(m[C30Longest(C30Above(m, name))], TrimPrefix(name, C30Longest(C30Above(m, name))))
  ELSE ROk(fsys, name)

\* C30: one call of MapFS.ResolveFS returns the value of the key that is the name
\* with ".", else the value of the longest key above the name with the rest of
\* the name, else the MapFS itself with the name; the value is returned as it is
\* mapped, also when it is a resolver.
C30_MapResolveOneHop ==
  (out.op = "hop" /\ out.fs.k = "map" /\ ValidPath(out.name))
    => /\ out.err = "ok"
       /\ out.rfs = C30Hop(out.fs, maps[out.fs.id], out.name).fs
       /\ out.rname = C30Hop(out.fs, maps[out.fs.id], out.name).name

\* the members of the UnionFS u that a resolve of name queues: those that are no
\* resolver and those whose ResolveFS returns themselves with the name
C31Queued(u, ctx, name) ==
  SelectSeq(unions[u.id],
            LAMBDA m : \/ ~IsResolver(m)
                       \/ ResolveFS(World("long"), m, ctx, name, MaxStack) = ROk(m, name))

\* a resolver member claims name: its ResolveFS moves, or fails otherwise than
\* with NOT_EXIST
C31Claimed(u, ctx, name) ==
  \E i \in DOMAIN unions[u.id] :
     /\ IsResolver(unions[u.id][i])
     /\ ResolveFS(World("long"), unions[u.id][i], ctx, name, MaxStack) # ROk(unions[u.id][i], name)
     /\ ResolveFS(World("long"), unions[u.id][i], ctx, name, MaxStack).err # "notexist"

\* the queued members on which name stats
C31Statting(u, ctx, name) ==
  SelectSeq(C31Queued(u, ctx, name),
            LAMBDA m : StatContext(World("long"), m, ctx, name, MaxStack).err = "ok")

\* C31: one ResolveFS of a UnionFS of two or more members, for a name that no
\* resolver member claims and that stats on a queued member, returns such a
\* member with the name and never the UnionFS itself: the first of them under a
\* read-only context, a Creator among them, if there is one, under a writable one.
C31_UnionStatPassPicksMember ==
  (/\ out.op = "hop" /\ out.fs.k = "union" /\ Len(unions[out.fs.id]) >= 2
   /\ ~(out.name = Dot /\ IsReadOnly(out.ctx))
   /\ ~C31Claimed(out.fs, out.ctx, out.name)
   /\ C31Statting(out.fs, out.ctx, out.name) # << >>)
    => /\ out.err = "ok" /\ out.rname = out.name
       /\ out.rfs \in Range(C31Statting(out.fs, out.ctx, out.name))
       /\ IsReadOnly(out.ctx) => out.rfs = Head(C31Statting(out.fs, out.ctx, out.name))
       /\ (~IsReadOnly(out.ctx) /\ \E m \in Range(C31Statting(out.fs, out.ctx, out.name)) : IsCreator(m))
            => IsCreator(out.rfs)

\* what the binding ref of a destination answers for the rest of a name below it
C32Answer(ref, ctx, rest) ==
  OpenContext(World("long"), ref.fs, ctx, Join(ref.path, rest), MaxStack).err

\* the answers of the bindings refs, none of which gives the name: the first one
\* that is no NOT_EXIST, "notexist" when there is none
C32First(refs, ctx, rest) ==
  IF \A i \in DOMAIN refs : C32Answer(refs[i], ctx, rest) = "notexist" THEN "notexist"
  ELSE C32Answer(refs[CHOOSE i \in DOMAIN refs :
                        /\ C32Answer(refs[i], ctx, rest) # "notexist"
                        /\ \A j \in 1..(i - 1) : C32Answer(refs[j], ctx, rest) = "notexist"],
                 ctx, rest)

\* C32: an open on a namespace of a name below one destination with several
\* bindings passes over a binding that answers NOT_EXIST and returns at once the
\* error of the first binding that answers with another error: when no binding
\* before it gave the name, the open fails with that error.
C32_MemberErrorReturned ==
  (/\ out.op = "open" /\ out.fs.k = "ns" /\ ValidPath(out.name)
   /\ out.name \notin DOMAIN bindings[out.fs.id]
   /\ Len(NSMatch(bindings[out.fs.id], out.name)) = 1
   /\ C32First(bindings[out.fs.id][NSMatch(bindings[out.fs.id], out.name)[1]], out.ctx,
               TrimPrefix(out.name, NSMatch(bindings[out.fs.id], out.name)[1]))
        \notin {"ok", "notexist"})
    => out.err = C32First(bindings[out.fs.id][NSMatch(bindings[out.fs.id], out.name)[1]], out.ctx,
                          TrimPrefix(out.name, NSMatch(bindings[out.fs.id], out.name)[1]))

\* C33: the info of a destination of a namespace is the info its first binding
\* was bound with: the stat succeeds and tells a directory exactly when that
\* binding was a directory at the time of the Bind, whatever the bound service
\* holds now.
C33_StatFromCachedInfo ==
  (/\ out.op = "stat" /\ out.fs.k = "ns" /\ out.name # Dot
   /\ out.name \in DOMAIN bindings[out.fs.id]
   /\ Len(bindings[out.fs.id][out.name]) > 0)
    => out.err = "ok" /\ out.dir = bindings[out.fs.id][out.name][1].dir

\* the pair fs.Resolve came to, advanced by one more ResolveFS of it when that
\* call succeeds and moves
C34Fixpoint(r, ctx) ==
  IF IsResolver(r.fs)
     /\ ResolveFS(World("long"), r.fs, ctx, r.name, MaxStack).err = "ok"
     /\ ResolveFS(World("long"), r.fs, ctx, r.name, MaxStack) # ROk(r.fs, r.name)
  THEN ResolveFS(World("long"), r.fs, ctx, r.name, MaxStack)
  ELSE ROk(r.fs, r.name)

\* what ResolveTo returns once fs.Resolve has returned r
C34Expected(r, ctx, cap) ==
  IF r.err # "ok" THEN RErr(r.err)
  ELSE IF HasCap(C34Fixpoint(r, ctx).fs, cap) THEN C34Fixpoint(r, ctx)
  ELSE RErr("notsupported")

C34_WitnessNotSupported ==
  /\ out.op = "resolveto" /\ out.err = "notsupported"
  /\ Resolve(World("long"), out.fs, out.ctx, out.name, MaxStack).err = "ok"
  /\ Resolve(World("long"), out.fs, out.ctx, out.name, MaxStack).fs # out.fs

\* destination k of namespace n holds a binding of the root of n itself
C35SelfAt(n, k) ==
  /\ k \in DOMAIN bindings[n]
  /\ \E i \in DOMAIN bindings[n][k] : bindings[n][k][i] = BindTarget(NS(n), Dot, TRUE)

\* C35: in a namespace with a destination bound to the namespace's own root, the
\* stat of "." returns a directory, and the open of "." and the open of the
\* self-bound destination return instead of recursing without bound.
C35_CycleTerminates ==
  (out.fs.k = "ns" /\ \E k \in DOMAIN bindings[out.fs.id] : C35SelfAt(out.fs.id, k))
    => /\ (out.op = "stat" /\ out.name = Dot) => (out.err = "ok" /\ out.dir)
       /\ (out.op = "open" /\ (out.name = Dot \/ C35SelfAt(out.fs.id, out.name)))
            => out.err # "overflow"

\* C36: a create on the task service, and a create on the destination of a
\* namespace where the task service is bound, returns for every name: it does
\* not call itself again without end.
C36_ServiceCreateTerminates ==
  (out.op = "create" /\ (out.fs = TaskService \/ out.fs.k = "ns"))
    => out.err # "overflow"

\* C37: a Bind that returns an error leaves the binding table of its namespace
\* as it was before the call; a Bind with a mode it does not know returns an
\* error, and that error is INVALID when the same call with mode "after" succeeds.
C37_FailedBindKeepsTable ==
  /\ (out.op = "bind" /\ out.err # "ok") => bindings[out.ns] = out.prev
  /\ (out.op = "bind" /\ out.mode \notin {"", "after", "before", "replace"})
       => /\ out.err # "ok"
          /\ BindIn(With(World("long"), out.ns, out.prev), out.ns, out.fs, out.name,
                    out.dst, "after").err = "ok" => out.err = "invalid"

\* C37 happens: a Bind with an unknown mode failed with INVALID on a namespace
\* that holds bindings
C37_Witness ==
  /\ out.op = "bind" /\ out.err = "invalid" /\ out.prev # EmptyMap
  /\ bindings[out.ns] = out.prev

\* C37 happens for a source that cannot be opened
C37_WitnessSource ==
  /\ out.op = "bind" /\ out.err = "notexist" /\ ValidPath(out.name) /\ out.prev # EmptyMap

\* the table of the namespace of the task with this id, in the heap given
C38Table(res, heap, id) == heap[ByID(res, id).ns.at]

\* the task an Alloc has just made
C38New == ByID(resources', out'.id)

\* an Alloc has just returned a task
C38Allocated == out'.op \in {"alloc", "read"} /\ out'.err = "ok"

\* C38: the task Alloc makes with a parent starts with a binding table equal to the
\* parent's at that time, in a table of its own; without a parent it starts with
\* an empty table; a bind or unbind in the namespace of one task leaves the tables of
\* all other tasks as they were; and the context of the namespace of every task of
\* the registry carries that task
C38_ForkedNamespace ==
  [][/\ C38Allocated =>
          /\ C38New.ns.at \notin live
          /\ bindings'[C38New.ns.at] =
               IF C38New.parent # 0 THEN C38Table(resources, bindings, C38New.parent)
               ELSE EmptyMap
          /\ \A u \in Registered : C38Table(resources', bindings', u) = C38Table(resources, bindings, u)
     /\ out'.op \in {"bind", "unbind"} =>
          \A u \in Registered \ {out'.id} :
            C38Table(resources', bindings', u) = C38Table(resources, bindings, u)
     /\ \A k \in DOMAIN resources' :
          FromContext(resources'[k].ns.ctx) = resources'[k].id]_vars

\* C38 happens: a task was forked from a task whose namespace holds a binding
C38_Witness ==
  /\ out.op \in {"alloc", "read"} /\ out.err = "ok"
  /\ ByID(resources, out.id).parent # 0
  /\ C38Table(resources, bindings, out.id) # EmptyMap
  /\ C38Table(resources, bindings, out.id) = C38Table(resources, bindings, ByID(resources, out.id).parent)

\* C38 happens: a forked task has bound in its namespace and its parent's table is
\* as it was
C38_WitnessDiverged ==
  /\ out.op = "bind" /\ out.err = "ok" /\ out.prev # EmptyMap
  /\ ByID(resources, out.id).parent # 0
  /\ C38Table(resources, bindings, ByID(resources, out.id).parent) = out.prev
  /\ C38Table(resources, bindings, out.id) # out.prev

\* the destination opened holds one binding, of a directory, and no other
\* destination of the table is at or above or under it
C39Single ==
  /\ out.op = "open" /\ out.fs.k = "ns" /\ out.err = "ok" /\ out.dir
  /\ out.name \in DOMAIN bindings[out.fs.id]
  /\ Len(bindings[out.fs.id][out.name]) = 1
  /\ bindings[out.fs.id][out.name][1].dir
  /\ bindings[out.fs.id][out.name][1].fs.k = "leaf"
  /\ \A k \in DOMAIN bindings[out.fs.id] : k = out.name

\* C39: the open of a destination that holds one directory binding lists no entry
\* of the bound directory twice
C39_BoundEntriesListedOnce ==
  C39Single => \A i, j \in DOMAIN out.entries : out.entries[i] = out.entries[j] => i = j

\* the bootstrap can be read through the namespace of task t: web/node/bootstrap.js
\* opens as a file
C40Bound(t) ==
  /\ OpenContext(World("long"), NS(ByID(resources, t).ns.at), Background, Bootstrap, MaxStack).err = "ok"
  /\ ~OpenContext(World("long"), NS(ByID(resources, t).ns.at), Background, Bootstrap, MaxStack).dir

\* the nodejs task t has been started with a cmd that is not empty, in a namespace
\* where the bootstrap is bound
C40Started(t) ==
  /\ t \in Registered
  /\ run[t].pc = "spawned"
  /\ run[t].cmd # ""
  /\ C40Bound(t)

\* the exit the claim gives a task with this cmd: the code passed to process.exit,
\* or "0"
C40Code(script) == IF ExitCall(script) = "" THEN "0" ELSE ExitCall(script)

\* C40: a nodejs task started with a cmd that is not empty, in a namespace where
\* web/node/bootstrap.js is bound, eventually has the exit its script gave or "0";
\* its exit is "1" only if Start returned an error, for an empty cmd or a bootstrap
\* that could not be opened or read;
\* and its exit is empty until the run is over
C40_NodeTaskExits ==
  \A t \in 1..MaxTasks :
    /\ C40Started(t) ~> (run[t].exit = C40Code(run[t].cmd))
    /\ [](t \in Registered /\ run[t].exit = "1" => run[t].err \in {"nocmd", "open", "read"})
    /\ [](t \in Registered /\ run[t].pc \in {"idle", "spawned"} => run[t].exit = "")
====
